---- MODULE Spec2Model ----
(***************************************************************************)
(* A model of brf-helper's retrieval and scoring core.                     *)
(*                                                                         *)
(*   - BRFVectorStore (src/brf_helper/etl/vector_store.py) and            *)
(*     HybridRetriever (src/brf_helper/etl/hybrid_retrieval.py): the store *)
(*     adapter, the BM25 sparse index, its pickle cache file and the       *)
(*     weighted fusion of sparse and dense candidates.                     *)
(*   - BRFAnalyzer (src/brf_helper/analysis/brf_analyzer.py): the five     *)
(*     sub-scores and the weighted overall health score.                   *)
(*                                                                         *)
(* Money is in kronor, as in the source.  Scores that the source computes  *)
(* as floats are kept as exact fractions (a numerator over a denominator   *)
(* common to one call), so equal scores are equal and nothing else is.     *)
(***************************************************************************)
EXTENDS Integers, Sequences, FiniteSets, TLC

VARIABLES
    enable_hybrid,      \* BRFVectorStore.enable_hybrid
    client,             \* chromadb.PersistentClient: name -> persisted collection
    collection,         \* BRFVectorStore.collection: a collection name, or None
    hybrid_retriever,   \* BRFVectorStore.hybrid_retriever (a HybridRetriever, or absent)
    cache,              \* the file at bm25_cache_path
    hashSeed,           \* the interpreter's string-hash seed: fixes set iteration order
    op,                 \* the operation that ran last, with its arguments
    outcome,            \* how it ended: "ok" or the exception raised
    res,                \* what the last search returned
    persisted,          \* what the retriever held when the cache file, if intact, was written
    metrics,            \* the BRFMetrics under analysis
    health,             \* the BRFHealthScore computed from it
    report,             \* what detect_red_flags made of it: a RedFlagReport, or the exception
    query_interface,    \* RedFlagDetector.query_interface: the collaborator's answers, if there is one
    database            \* BRFDatabase: the rows stored for one BRF, and the last call on it

storeVars == <<enable_hybrid, client, collection, hybrid_retriever, cache, hashSeed>>
callVars == <<op, outcome, res>>
histVars == <<persisted>>
detectVars == <<report, query_interface>>
scoreVars == <<metrics, health, report, query_interface>>
dbVars == <<database>>
vars == <<enable_hybrid, client, collection, hybrid_retriever, cache, hashSeed,
          op, outcome, res, persisted, metrics, health, report, query_interface,
          database>>

None == "None"

----------------------------------------------------------------------------
(* Bounds and input domains                                                *)

\* most documents one collection holds
MaxDocs == 2
\* most documents one add_documents call carries
MaxBatch == 2
\* largest n_results asked of a search
MaxK == 2

CollNames == {"brf_reports", "test_collection"}
DocIds == {"d1", "d2", "d3"}

\* The chunks that can be ingested: text (already split at whitespace),
\* metadata (the brf_name, or None for a chunk added without metadata) and
\* embedding (a point on a line; the distance to a query is the gap).
DocText(id) ==
    CASE id = "d1" -> <<"Lan", "avgift">>
      [] id = "d2" -> <<"lan">>
      [] OTHER     -> <<"ranta">>

DocMeta(id) ==
    CASE id = "d1" -> "A"
      [] id = "d2" -> "B"
      [] OTHER     -> None

DocEmb(id) == IF id = "d1" THEN 0 ELSE 1

Queries == {<<"Lan">>, <<"skuld">>}
QueryEmbs == {0}
Filters == {None, "A"}
\* alpha in tenths: 0.0, the instance default 0.7, 1.0
Alphas == {0, 10}

Vocabulary == {"lan", "avgift", "ranta", "skuld"}

\* every order in which a set of the ids can be iterated
Seeds == {s \in [1..Cardinality(DocIds) -> DocIds] :
            \A i, j \in 1..Cardinality(DocIds) : i # j => s[i] # s[j]}

----------------------------------------------------------------------------
(* Sequences                                                               *)

Range(s) == {s[i] : i \in 1..Len(s)}

Min2(a, b) == IF a < b THEN a ELSE b

Take(s, n) == SubSeq(s, 1, Min2(n, Len(s)))

IndexOf(s, x) == CHOOSE i \in 1..Len(s) : s[i] = x

SetMax(S) == CHOOSE x \in S : \A y \in S : y <= x
SetMin(S) == CHOOSE x \in S : \A y \in S : x <= y

\* a sort that leaves the list as it was given
SortDescStable_unsorted(s, keys) == s

\* list.sort(key, reverse=True) / sorted(..., reverse=True): descending by
\* key, elements with equal keys keep their order.
SortDescStable(s, keys) ==
    LET n == Len(s)
        pos(i) == Cardinality({j \in 1..n : keys[j] > keys[i]})
                  + Cardinality({j \in 1..i : keys[j] = keys[i]})
    IN [p \in 1..n |-> s[CHOOSE i \in 1..n : pos(i) = p]]

\* a sort that keeps only the first element of each key
SortAscStable_one_per_key(s, keys) ==
    LET n == Len(s)
        first == {i \in 1..n : \A j \in 1..(i - 1) : keys[j] # keys[i]}
        pos(i) == Cardinality({j \in first : keys[j] < keys[i]}) + 1
    IN [p \in 1..Cardinality(first) |-> s[CHOOSE i \in first : pos(i) = p]]

\* ascending by key, stable
SortAscStable(s, keys) ==
    LET n == Len(s)
        pos(i) == Cardinality({j \in 1..n : keys[j] < keys[i]})
                  + Cardinality({j \in 1..i : keys[j] = keys[i]})
    IN [p \in 1..n |-> s[CHOOSE i \in 1..n : pos(i) = p]]

\* the distinct-id sequences of a given length
IdSeqs(n) == {s \in [1..n -> DocIds] : \A i, j \in 1..n : i # j => s[i] # s[j]}

----------------------------------------------------------------------------
(* The sparse index: tokenizing and rank_bm25.BM25Okapi                    *)

\* str.lower() on one word
Lower(w) ==
    CASE w = "Lan"    -> "lan"
      [] w = "Avgift" -> "avgift"
      [] w = "Ranta"  -> "ranta"
      [] w = "Skuld"  -> "skuld"
      [] OTHER        -> w

\* doc.lower().split()
Tokenize(text) == [i \in 1..Len(text) |-> Lower(text[i])]

Count(tokens, t) == Cardinality({i \in 1..Len(tokens) : tokens[i] = t})

RECURSIVE SumSeq(_)
SumSeq(s) == IF s = <<>> THEN 0 ELSE s[1] + SumSeq(Tail(s))

NoIndex == [built |-> FALSE, corpus_size |-> 0, doc_len |-> <<>>, doc_freqs |-> <<>>]

\* BM25Okapi(tokenized_docs): per-document lengths and term frequencies.
\* Only called on a non-empty corpus: on an empty one the constructor
\* divides by corpus_size = 0 (see build_bm25_index below).
BM25Okapi(tokenized_docs) ==
    [built       |-> TRUE,
     corpus_size |-> Len(tokenized_docs),
     doc_len     |-> [i \in 1..Len(tokenized_docs) |-> Len(tokenized_docs[i])],
     doc_freqs   |-> [i \in 1..Len(tokenized_docs) |->
                        [t \in Vocabulary |-> Count(tokenized_docs[i], t)]]]

\* One term's BM25 contribution to one document, times 1000, with
\* k1 = 1.5 and b = 0.75:  tf*(k1+1) / (tf + k1*(1 - b + b*dl/avgdl)),
\* avgdl = total/N.  Numerator and denominator are multiplied by 8*total to
\* stay in the integers.  The IDF weight, which is the same for every
\* document, is taken as 1.
TermScore(index, i, t) ==
    LET tf    == index.doc_freqs[i][t]
        dl    == index.doc_len[i]
        total == SumSeq(index.doc_len)
        N     == index.corpus_size
    IN IF tf = 0 THEN 0
       ELSE (20000 * tf * total) \div (8 * tf * total + 3 * total + 9 * dl * N)

\* bm25_index.get_scores(query_tokens): one score per indexed document
get_scores(index, query_tokens) ==
    [i \in 1..index.corpus_size |->
        SumSeq([q \in 1..Len(query_tokens) |-> TermScore(index, i, query_tokens[q])])]

----------------------------------------------------------------------------
(* The persisted collection (chromadb)                                     *)

NoCollection == [exists |-> FALSE, ids |-> <<>>]
EmptyCollection == [exists |-> TRUE, ids |-> <<>>]

\* collection.get(): everything, in insertion order
collection_get(coll) ==
    [ids       |-> coll.ids,
     documents |-> [i \in 1..Len(coll.ids) |-> DocText(coll.ids[i])],
     metadatas |-> [i \in 1..Len(coll.ids) |-> DocMeta(coll.ids[i])]]

Distance(emb, id) == IF emb >= DocEmb(id) THEN emb - DocEmb(id) ELSE DocEmb(id) - emb

Matches(where, id) == where = None \/ DocMeta(id) = where

\* collection.query(query_embeddings, n_results, where): the n_results
\* nearest documents that satisfy the filter, nearest first
collection_query(coll, emb, n_results, where) ==
    LET eligible == SelectSeq(coll.ids, LAMBDA id : Matches(where, id))
        ranked   == SortAscStable(eligible, [i \in 1..Len(eligible) |-> Distance(emb, eligible[i])])
        top      == Take(ranked, n_results)
    IN [ids       |-> top,
        documents |-> [i \in 1..Len(top) |-> DocText(top[i])],
        metadatas |-> [i \in 1..Len(top) |-> DocMeta(top[i])],
        distances |-> [i \in 1..Len(top) |-> Distance(emb, top[i])]]

\* collection.add(...): ids already stored are left as they are
collection_add(coll, batch) ==
    [coll EXCEPT !.ids = coll.ids \o SelectSeq(batch, LAMBDA id : id \notin Range(coll.ids))]

----------------------------------------------------------------------------
(* HybridRetriever                                                         *)

NoCache == [state |-> "absent", bm25_index |-> NoIndex, document_texts |-> <<>>,
            document_ids |-> <<>>, document_metadatas |-> <<>>]

NoRetriever == [created |-> FALSE, bm25_index |-> NoIndex, document_texts |-> <<>>,
                document_ids |-> <<>>, document_metadatas |-> <<>>]

\* _load_bm25_index with the metadatas entry of the file left unread
_load_bm25_index_no_metadatas(r, file) ==
    IF file.state = "absent" THEN r
    ELSE IF file.state = "ok"
         THEN [r EXCEPT !.bm25_index = file.bm25_index,
                        !.document_texts = file.document_texts,
                        !.document_ids = file.document_ids]
         ELSE [r EXCEPT !.bm25_index = NoIndex]

\* _load_bm25_index: no file, nothing changes; a file that unpickles, its
\* four entries replace the four fields; a file that does not, the index is
\* marked absent.
_load_bm25_index(r, file) ==
    IF file.state = "absent" THEN r
    ELSE IF file.state = "ok"
         THEN [r EXCEPT !.bm25_index = file.bm25_index,
                        !.document_texts = file.document_texts,
                        !.document_ids = file.document_ids,
                        !.document_metadatas = file.document_metadatas]
         ELSE [r EXCEPT !.bm25_index = NoIndex]

\* HybridRetriever.__init__
NewHybridRetriever(file) ==
    _load_bm25_index([created |-> TRUE, bm25_index |-> NoIndex, document_texts |-> <<>>,
                      document_ids |-> <<>>, document_metadatas |-> <<>>], file)

\* the outcomes of open(path, 'wb') + pickle.dump: written, not opened (the
\* old file stays), or opened and truncated but not completely written
SaveOutcomes == {"written", "not_opened", "truncated"}

\* _save_bm25_index: the file after the attempt; exceptions are swallowed
_save_bm25_index(r, file, how) ==
    IF how = "written"
    THEN [state |-> "ok", bm25_index |-> r.bm25_index, document_texts |-> r.document_texts,
          document_ids |-> r.document_ids, document_metadatas |-> r.document_metadatas]
    ELSE IF how = "not_opened" THEN file
    ELSE [NoCache EXCEPT !.state = "corrupt"]

\* build_bm25_index(force_rebuild): the retriever and the file afterwards,
\* the exception raised, if any, and whether the file was written
build_bm25_index(r, file, force_rebuild, handle, db, how) ==
    IF r.bm25_index.built /\ ~force_rebuild
    THEN [retriever |-> r, file |-> file, raised |-> None, saved |-> FALSE]
    ELSE IF handle = None
    THEN [retriever |-> r, file |-> file, raised |-> "ValueError", saved |-> FALSE]
    ELSE LET all_docs == collection_get(db[handle])
             r1 == [r EXCEPT !.document_texts = all_docs.documents,
                             !.document_ids = all_docs.ids,
                             !.document_metadatas = all_docs.metadatas]
             tokenized_docs == [i \in 1..Len(r1.document_texts) |->
                                   Tokenize(r1.document_texts[i])]
         IN IF tokenized_docs = <<>>
            THEN \* BM25Okapi([]) computes avgdl = 0 / 0
                 [retriever |-> r1, file |-> file, raised |-> "ZeroDivisionError",
                  saved |-> FALSE]
            ELSE LET r2 == [r1 EXCEPT !.bm25_index = BM25Okapi(tokenized_docs)]
                 IN [retriever |-> r2, file |-> _save_bm25_index(r2, file, how),
                     raised |-> None, saved |-> how = "written"]

\* clear_cache: the retriever afterwards (the file is unlinked)
clear_cache(r) ==
    [r EXCEPT !.bm25_index = NoIndex, !.document_texts = <<>>,
              !.document_ids = <<>>, !.document_metadatas = <<>>]

\* the four things the cache file is to carry
Snapshot(r) == <<r.bm25_index, r.document_texts, r.document_ids, r.document_metadatas>>

\* the snapshot that goes with the file after a call: taken when the file
\* is written, dropped when the file is no longer one that was written
Remember(old, b) ==
    IF b.saved THEN Snapshot(b.retriever)
    ELSE IF b.file.state = "ok" THEN old
    ELSE Snapshot(NoRetriever)

\* _bm25_search: (doc_id, score) pairs, best first, at most k
_bm25_search(r, query, k) ==
    LET query_tokens == Tokenize(query)
        doc_scores   == get_scores(r.bm25_index, query_tokens)
        n            == Min2(Len(r.document_ids), Len(doc_scores))
        scored_docs  == [i \in 1..n |-> <<r.document_ids[i], doc_scores[i]>>]
    IN Take(SortDescStable(scored_docs, doc_scores), k)

NoResult == [ids |-> <<>>, documents |-> <<>>, metadatas |-> <<>>, distances |-> <<>>]

\* iterating the set all_doc_ids: the order the hash seed gives
SetIteration(S, seed) == SelectSeq(seed, LAMBDA id : id \in S)

\* max - min if max > min else 1.0: the range a candidate set is divided by
value_range_unguarded(max_value, min_value) == max_value - min_value

value_range(max_value, min_value) ==
    IF max_value > min_value THEN max_value - min_value ELSE 1

\* alpha * vector_score + (1 - alpha) * bm25_score, as a numerator over
\* 10 * bm25_range * dist_range: vector_num is vector_score times dist_range,
\* bm25_num is bm25_score times bm25_range, alpha is in tenths
combined_score_weights_swapped(alpha, vector_num, bm25_num, bm25_range, dist_range) ==
    (10 - alpha) * vector_num * bm25_range + alpha * bm25_num * dist_range

combined_score(alpha, vector_num, bm25_num, bm25_range, dist_range) ==
    alpha * vector_num * bm25_range + (10 - alpha) * bm25_num * dist_range

\* _fuse_results.  alpha is in tenths.  With bm25_range and dist_range the
\* two min-max ranges, every combined score is a multiple of
\* 1 / (10 * bm25_range * dist_range): Combined is its numerator, and the
\* distances returned are <<numerator, denominator>> pairs.
_fuse_results(r, bm25_scores, vector_results, alpha, n_results, seed) ==
    LET bm25_ids   == {bm25_scores[i][1] : i \in 1..Len(bm25_scores)}
        bm25_vals  == {bm25_scores[i][2] : i \in 1..Len(bm25_scores)}
        min_bm25   == IF bm25_scores = <<>> THEN 0 ELSE SetMin(bm25_vals)
        max_bm25   == IF bm25_scores = <<>> THEN 0 ELSE SetMax(bm25_vals)
        bm25_range == value_range(max_bm25, min_bm25)
        ScoreOf(id) == bm25_scores[CHOOSE i \in 1..Len(bm25_scores) :
                                      bm25_scores[i][1] = id][2]
        \* bm25_dict.get(doc_id, 0.0), times bm25_range
        bm25_num(id) == IF id \in bm25_ids THEN ScoreOf(id) - min_bm25 ELSE 0
        vector_ids       == vector_results.ids
        vector_distances == vector_results.distances
        n_vec      == Min2(Len(vector_ids), Len(vector_distances))
        vec_idset  == IF vector_distances = <<>> THEN {}
                      ELSE {vector_ids[i] : i \in 1..n_vec}
        min_dist   == IF vector_distances = <<>> THEN 0 ELSE SetMin(Range(vector_distances))
        max_dist   == IF vector_distances = <<>> THEN 0 ELSE SetMax(Range(vector_distances))
        dist_range == value_range(max_dist, min_dist)
        DistOf(id) == vector_distances[IndexOf(vector_ids, id)]
        \* vector_dict.get(doc_id, 0.0), times dist_range
        vector_num(id) == IF id \in vec_idset
                          THEN dist_range - (DistOf(id) - min_dist) ELSE 0
        all_doc_ids == bm25_ids \cup vec_idset
        denominator == 10 * bm25_range * dist_range
        Combined(id) == combined_score(alpha, vector_num(id), bm25_num(id),
                                       bm25_range, dist_range)
        iterated   == SetIteration(all_doc_ids, seed)
        combined_scores == [i \in 1..Len(iterated) |-> Combined(iterated[i])]
        sorted_results == Take(SortDescStable(iterated, combined_scores), n_results)
        id_to_text(id) == IF id \in Range(r.document_ids)
                          THEN r.document_texts[IndexOf(r.document_ids, id)] ELSE <<>>
        id_to_metadata(id) == IF id \in Range(r.document_ids)
                              THEN r.document_metadatas[IndexOf(r.document_ids, id)]
                              ELSE "{}"
    IN [ids       |-> sorted_results,
        documents |-> [i \in 1..Len(sorted_results) |-> id_to_text(sorted_results[i])],
        metadatas |-> [i \in 1..Len(sorted_results) |-> id_to_metadata(sorted_results[i])],
        distances |-> [i \in 1..Len(sorted_results) |->
                         <<denominator - Combined(sorted_results[i]), denominator>>]]

\* the vector-only branch of BRFVectorStore.search (lines 86-98)
vector_only_search(handle, db, emb, n_results, where) ==
    collection_query(db[handle], emb, n_results, where)

\* the index rebuilt before every search, present or not
ensure_index_always_builds(r, file, handle, db, how) ==
    build_bm25_index(r, file, TRUE, handle, db, how)

\* `if self.bm25_index is None: self.build_bm25_index()` of search
ensure_index(r, file, handle, db, how) ==
    IF ~r.bm25_index.built
    THEN build_bm25_index(r, file, FALSE, handle, db, how)
    ELSE [retriever |-> r, file |-> file, raised |-> None, saved |-> FALSE]

\* HybridRetriever.search: the retriever and file afterwards (the index is
\* built when absent), the exception raised if any, and the result
HybridRetriever_search(r, file, handle, db, query, emb, n_results, where, alpha, seed, how) ==
    LET b == ensure_index(r, file, handle, db, how)
    IN IF b.raised # None
       THEN [retriever |-> b.retriever, file |-> b.file, raised |-> b.raised,
             saved |-> b.saved, result |-> NoResult]
       ELSE IF handle = None
       THEN \* vector_store.search raises: no collection
            [retriever |-> b.retriever, file |-> b.file, raised |-> "ValueError",
             saved |-> b.saved, result |-> NoResult]
       ELSE LET search_k       == Min2(n_results * 3, Len(b.retriever.document_texts))
                bm25_scores    == _bm25_search(b.retriever, query, search_k)
                vector_results == vector_only_search(handle, db, emb, search_k, where)
            IN [retriever |-> b.retriever, file |-> b.file, raised |-> None,
                saved |-> b.saved,
                result |-> _fuse_results(b.retriever, bm25_scores, vector_results,
                                         alpha, n_results, seed)]

----------------------------------------------------------------------------
(* BRFMetrics and the health scorer (brf_analyzer.py)                      *)

\* Optional[float]: Null is Python's None, Some(v) a number
Null == <<>>
Some(v) == <<v>>
Get(x) == x[1]
\* "x is not None"
IsNotNone(x) == x # Null
\* "if x:" on an optional number: neither None nor zero
Truthy(x) == x # Null /\ Get(x) # 0

Abs(v) == IF v < 0 THEN 0 - v ELSE v

\* num / den < p / q and num / den > p / q for den # 0 and q > 0, without
\* dividing
RatioLT(num, den, p, q) ==
    IF den > 0 THEN num * q < p * den ELSE num * q > p * den
RatioGT(num, den, p, q) ==
    IF den > 0 THEN num * q > p * den ELSE num * q < p * den

\* BRFMetrics(brf_name=...): every other field None
NullMetrics ==
    [annual_result |-> Null, operating_result |-> Null, interest_costs |-> Null,
     cash_flow |-> Null, liquid_assets |-> Null, monthly_fee_per_sqm |-> Null,
     total_debt |-> Null, equity |-> Null, solvency_ratio |-> Null,
     maintenance_reserves |-> Null, num_apartments |-> Null, building_year |-> Null]

\* min(100, score): the lower limit forgotten
Clamp_upper_only(score) == IF score > 100 THEN 100 ELSE score

\* max(0, min(100, score))
Clamp(score) == IF score < 0 THEN 0 ELSE IF score > 100 THEN 100 ELSE score

_score_financial_stability(m) ==
    LET annual == IF IsNotNone(m.annual_result)
                  THEN IF Get(m.annual_result) >= 0 THEN 20
                       ELSE IF Get(m.annual_result) > -100000 THEN 10
                       ELSE IF Get(m.annual_result) > -500000 THEN -10
                       ELSE -30
                  ELSE 0
        operating == IF IsNotNone(m.operating_result)
                     THEN IF Get(m.operating_result) > 0 THEN 15 ELSE -25
                     ELSE 0
        solvency == IF IsNotNone(m.solvency_ratio)
                    THEN IF Get(m.solvency_ratio) > 20 THEN 15
                         ELSE IF Get(m.solvency_ratio) > 10 THEN 5
                         ELSE -20
                    ELSE 0
    IN Clamp(50 + annual + operating + solvency)

_score_cost_efficiency(m) ==
    LET fee == IF IsNotNone(m.monthly_fee_per_sqm)
               THEN IF Get(m.monthly_fee_per_sqm) < 40 THEN 30
                    ELSE IF Get(m.monthly_fee_per_sqm) < 50 THEN 15
                    ELSE IF Get(m.monthly_fee_per_sqm) < 60 THEN 0
                    ELSE IF Get(m.monthly_fee_per_sqm) < 70 THEN -15
                    ELSE -30
               ELSE 0
    IN Clamp(50 + fee)

_score_liquidity(m) ==
    LET cash == IF IsNotNone(m.cash_flow)
                THEN IF Get(m.cash_flow) > 0 THEN 25
                     ELSE IF Get(m.cash_flow) > -50000 THEN 5
                     ELSE -20
                ELSE 0
        assets == IF IsNotNone(m.liquid_assets) /\ Truthy(m.num_apartments)
                  THEN IF RatioGT(Get(m.liquid_assets), Get(m.num_apartments), 50000, 1)
                       THEN 15
                       ELSE IF RatioGT(Get(m.liquid_assets), Get(m.num_apartments), 20000, 1)
                       THEN 5
                       ELSE -15
                  ELSE 0
    IN Clamp(50 + cash + assets)

_score_debt_management(m) ==
    LET interest == IF IsNotNone(m.interest_costs) /\ Truthy(m.num_apartments)
                    THEN LET i == Abs(Get(m.interest_costs))
                             n == Get(m.num_apartments)
                         IN IF RatioLT(i, n, 5000, 1) THEN 25
                            ELSE IF RatioLT(i, n, 15000, 1) THEN 10
                            ELSE IF RatioLT(i, n, 25000, 1) THEN -5
                            ELSE -25
                    ELSE 0
        debt == IF Truthy(m.total_debt) /\ Truthy(m.equity)
                THEN LET d == Get(m.total_debt)
                         e == Get(m.equity)
                     IN IF RatioLT(d, e, 1, 2) THEN 15
                        ELSE IF RatioLT(d, e, 1, 1) THEN 5
                        ELSE IF RatioLT(d, e, 2, 1) THEN -10
                        ELSE -25
                ELSE 0
    IN Clamp(50 + interest + debt)

_score_maintenance_readiness(m) ==
    LET reserves == IF IsNotNone(m.maintenance_reserves) /\ Truthy(m.num_apartments)
                    THEN LET r == Get(m.maintenance_reserves)
                             n == Get(m.num_apartments)
                         IN IF RatioGT(r, n, 100000, 1) THEN 20
                            ELSE IF RatioGT(r, n, 50000, 1) THEN 10
                            ELSE IF RatioGT(r, n, 20000, 1) THEN 0
                            ELSE -20
                    ELSE 0
        age == IF Truthy(m.building_year)
               THEN LET building_age == 2024 - Get(m.building_year)
                    IN IF building_age < 20 THEN 10
                       ELSE IF building_age < 40 THEN 0
                       ELSE IF building_age < 60 THEN -10
                       ELSE -20
               ELSE 0
    IN Clamp(50 + reserves + age)

\* round(...) in place of int(...): the weighted sum to the nearest integer
WeightedOverall_rounded(a, b, c, d, e) ==
    (25 * a + 20 * b + 20 * c + 20 * d + 15 * e + 50) \div 100

\* the weighted sum with the maintenance weight 0.10 instead of 0.15
WeightedOverall_weights_short(a, b, c, d, e) ==
    (25 * a + 20 * b + 20 * c + 20 * d + 10 * e) \div 100

\* Python floats are IEEE-754 doubles.  Every value the weighted sum meets
\* is a multiple of 2^-55 below 2^8 in magnitude, so a double is kept as its
\* count of 2^-55 units, written in four limbs of LimbBits bits, low limb
\* first; the top limb carries the sign.
LimbBits == 20
LimbBase == 2 ^ LimbBits
UnitBits == 55
MantissaBits == 53

\* carries moved up so that every limb is below LimbBase
Carry(l) ==
    LET x1 == l[1]
        x2 == l[2] + x1 \div LimbBase
        x3 == l[3] + x2 \div LimbBase
        x4 == l[4] + x3 \div LimbBase
    IN <<x1 % LimbBase, x2 % LimbBase, x3 % LimbBase, x4>>

\* number of significant bits of a limb value
Bits(v) == IF v = 0 THEN 0 ELSE CHOOSE n \in 1..(LimbBits + 1) : 2 ^ (n - 1) <= v /\ v < 2 ^ n

BitLength(l) ==
    IF l[4] # 0 THEN 3 * LimbBits + Bits(l[4])
    ELSE IF l[3] # 0 THEN 2 * LimbBits + Bits(l[3])
    ELSE IF l[2] # 0 THEN LimbBits + Bits(l[2])
    ELSE Bits(l[1])

\* a non-negative value rounded to nearest, ties to even, keeping MantissaBits
\* significant bits
RoundToDouble(l) ==
    LET shift == BitLength(l) - MantissaBits
    IN IF shift <= 0 THEN l
       ELSE LET step == 2 ^ shift
                rest == l[1] % step
                odd  == (l[1] \div step) % 2 = 1
                up   == 2 * rest > step \/ (2 * rest = step /\ odd)
            IN Carry(<<l[1] - rest + (IF up THEN step ELSE 0), l[2], l[3], l[4]>>)

IsNegative(l) == l[4] < 0

Negate(l) == Carry(<<-l[1], -l[2], -l[3], -l[4]>>)

\* rounding is symmetric about zero
RoundSigned(l) == IF IsNegative(l) THEN Negate(RoundToDouble(Negate(l))) ELSE RoundToDouble(l)

\* x * w for an int x and a double w
FloatMul(x, w) == RoundSigned(Carry(<<x * w[1], x * w[2], x * w[3], x * w[4]>>))

\* s + t for doubles
FloatAdd(s, t) == RoundSigned(Carry(<<s[1] + t[1], s[2] + t[2], s[3] + t[3], s[4] + t[4]>>))

\* the units above bit UnitBits of a non-negative double
WholePart(f) ==
    f[3] \div (2 ^ (UnitBits - 2 * LimbBits)) + f[4] * (2 ^ (3 * LimbBits - UnitBits))

\* int(f): truncation toward zero
FloatToInt(f) == IF IsNegative(f) THEN -WholePart(Negate(f)) ELSE WholePart(f)

\* the weights as doubles: 0.25 = 2^53 units, 0.20 = 0x1.999999999999ap-3,
\* 0.15 = 0x1.3333333333333p-3
Weight_financial_stability == <<0, 0, 8192, 0>>
Weight_cost_efficiency == <<629146, 629145, 6553, 0>>
Weight_liquidity == <<629146, 629145, 6553, 0>>
Weight_debt_management == <<629146, 629145, 6553, 0>>
Weight_maintenance_readiness == <<209715, 209715, 4915, 0>>

\* int(a * 0.25 + b * 0.20 + c * 0.20 + d * 0.20 + e * 0.15), the sum taken
\* left to right in double arithmetic
WeightedOverall(a, b, c, d, e) ==
    FloatToInt(
        FloatAdd(FloatAdd(FloatAdd(FloatAdd(FloatMul(a, Weight_financial_stability),
                                            FloatMul(b, Weight_cost_efficiency)),
                                   FloatMul(c, Weight_liquidity)),
                          FloatMul(d, Weight_debt_management)),
                 FloatMul(e, Weight_maintenance_readiness)))

NoHealth == [computed |-> FALSE, overall_score |-> 0, financial_stability_score |-> 0,
             cost_efficiency_score |-> 0, liquidity_score |-> 0,
             debt_management_score |-> 0, maintenance_readiness_score |-> 0]

calculate_health_score(m) ==
    LET financial_stability   == _score_financial_stability(m)
        cost_efficiency       == _score_cost_efficiency(m)
        liquidity             == _score_liquidity(m)
        debt_management       == _score_debt_management(m)
        maintenance_readiness == _score_maintenance_readiness(m)
    IN [computed |-> TRUE,
        overall_score |-> WeightedOverall(financial_stability, cost_efficiency,
                                          liquidity, debt_management,
                                          maintenance_readiness),
        financial_stability_score   |-> financial_stability,
        cost_efficiency_score       |-> cost_efficiency,
        liquidity_score             |-> liquidity,
        debt_management_score       |-> debt_management,
        maintenance_readiness_score |-> maintenance_readiness]

----------------------------------------------------------------------------
(* Metric inputs: every tier of every rule, its boundaries, null, zero,    *)
(* and the largest magnitudes the checker's integers hold                  *)

AnnualResults == {Null, Some(150000), Some(0), Some(-50000), Some(-100000),
                  Some(-300000), Some(-500000)}
OperatingResults == {Null, Some(1000), Some(0), Some(-2000000000)}
SolvencyRatios == {Null, Some(25), Some(20), Some(10), Some(3)}
MonthlyFees == {Null, Some(35), Some(40), Some(45), Some(50), Some(59), Some(60),
                Some(65), Some(70), Some(85)}
CashFlows == {Null, Some(10000), Some(0), Some(-50000), Some(-2000000000)}
LiquidAssets == {Null, Some(3000000), Some(2500000), Some(1500000), Some(1000000), Some(0)}
Apartments == {Null, Some(0), Some(50)}
InterestCosts == {Null, Some(-100000), Some(250000), Some(750000), Some(1250000),
                  Some(-2000000000)}
TotalDebts == {Null, Some(0), Some(400000), Some(500000), Some(1000000), Some(2000000),
               Some(3000000)}
Equities == {Null, Some(0), Some(1000000), Some(-1000000)}
MaintenanceReserves == {Null, Some(6000000), Some(5000000), Some(2500000), Some(1000000),
                        Some(0)}
BuildingYears == {Null, Some(2010), Some(2004), Some(1984), Some(1964), Some(1900)}

\* a sound association, every field present
TypicalMetrics ==
    [annual_result |-> Some(150000), operating_result |-> Some(1000),
     interest_costs |-> Some(-100000), cash_flow |-> Some(10000),
     liquid_assets |-> Some(3000000), monthly_fee_per_sqm |-> Some(45),
     total_debt |-> Some(400000), equity |-> Some(1000000), solvency_ratio |-> Some(25),
     maintenance_reserves |-> Some(6000000), num_apartments |-> Some(50),
     building_year |-> Some(2010)]

BaseMetrics == {NullMetrics, TypicalMetrics}

\* The metrics a scoring request can carry: each scorer's own fields in
\* every combination, the other fields all null or all typical.
MetricsInputs ==
    {[b EXCEPT !.annual_result = a, !.operating_result = o, !.solvency_ratio = s] :
        b \in BaseMetrics, a \in AnnualResults, o \in OperatingResults, s \in SolvencyRatios}
    \cup {[b EXCEPT !.monthly_fee_per_sqm = f] : b \in BaseMetrics, f \in MonthlyFees}
    \cup {[b EXCEPT !.cash_flow = c, !.liquid_assets = l, !.num_apartments = n] :
            b \in BaseMetrics, c \in CashFlows, l \in LiquidAssets, n \in Apartments}
    \cup {[b EXCEPT !.interest_costs = i, !.total_debt = d, !.equity = e,
                    !.num_apartments = n] :
            b \in BaseMetrics, i \in InterestCosts, d \in TotalDebts, e \in Equities,
            n \in Apartments}
    \cup {[b EXCEPT !.maintenance_reserves = r, !.building_year = y, !.num_apartments = n] :
            b \in BaseMetrics, r \in MaintenanceReserves, y \in BuildingYears,
            n \in Apartments}

----------------------------------------------------------------------------
(* Red-flag detector (red_flag_detector.py)                                *)

\* RedFlagSeverity and RedFlagCategory values
Severities == {"critical", "high", "medium", "low"}
Categories == {"financial_stability", "debt_risk", "liquidity", "maintenance",
               "governance", "legal", "operational"}

\* RedFlagDetector.severity_thresholds; the debt/equity thresholds 3.0, 2.0
\* and 1.5 are kept in halves
severity_thresholds ==
    [negative_operating_result_critical |-> -500000,
     negative_operating_result_high |-> -100000,
     negative_cash_flow_critical |-> -500000,
     negative_cash_flow_high |-> -200000,
     solvency_critical |-> 5,
     solvency_high |-> 10,
     solvency_medium |-> 15,
     interest_per_apt_critical |-> 40000,
     interest_per_apt_high |-> 25000,
     interest_per_apt_medium |-> 15000,
     monthly_fee_high |-> 70,
     monthly_fee_medium |-> 60,
     reserves_per_apt_low |-> 20000,
     reserves_per_apt_critical |-> 10000,
     building_age_old |-> 60,
     building_age_very_old |-> 80,
     debt_to_equity_critical_halves |-> 6,
     debt_to_equity_high_halves |-> 4,
     debt_to_equity_medium_halves |-> 3]

\* a RedFlag: `check` stands for the rule that made it (its title and
\* evidence), the other two fields are the dataclass's
RedFlag(check, category, severity) ==
    [check |-> check, category |-> category, severity |-> severity]

\* _check_financial_stability with the solvency tiers tested one after the
\* other by `if`, not `elif`
_check_financial_stability_every_tier(m) ==
    LET th == severity_thresholds
        operating ==
            IF IsNotNone(m.operating_result)
            THEN IF Get(m.operating_result) < th.negative_operating_result_critical
                 THEN <<RedFlag("operating_result", "financial_stability", "critical")>>
                 ELSE IF Get(m.operating_result) < th.negative_operating_result_high
                 THEN <<RedFlag("operating_result", "financial_stability", "high")>>
                 ELSE <<>>
            ELSE <<>>
        annual ==
            IF IsNotNone(m.annual_result) /\ Get(m.annual_result) < -1000000
            THEN <<RedFlag("annual_result", "financial_stability", "high")>>
            ELSE <<>>
        solvency ==
            IF IsNotNone(m.solvency_ratio)
            THEN (IF Get(m.solvency_ratio) < th.solvency_critical
                  THEN <<RedFlag("solvency_ratio", "financial_stability", "critical")>>
                  ELSE <<>>)
                 \o (IF Get(m.solvency_ratio) < th.solvency_high
                     THEN <<RedFlag("solvency_ratio", "financial_stability", "high")>>
                     ELSE <<>>)
                 \o (IF Get(m.solvency_ratio) < th.solvency_medium
                     THEN <<RedFlag("solvency_ratio", "financial_stability", "medium")>>
                     ELSE <<>>)
            ELSE <<>>
    IN operating \o annual \o solvency

\* _check_financial_stability(metrics)
_check_financial_stability(m) ==
    LET th == severity_thresholds
        operating ==
            IF IsNotNone(m.operating_result)
            THEN IF Get(m.operating_result) < th.negative_operating_result_critical
                 THEN <<RedFlag("operating_result", "financial_stability", "critical")>>
                 ELSE IF Get(m.operating_result) < th.negative_operating_result_high
                 THEN <<RedFlag("operating_result", "financial_stability", "high")>>
                 ELSE <<>>
            ELSE <<>>
        annual ==
            IF IsNotNone(m.annual_result) /\ Get(m.annual_result) < -1000000
            THEN <<RedFlag("annual_result", "financial_stability", "high")>>
            ELSE <<>>
        solvency ==
            IF IsNotNone(m.solvency_ratio)
            THEN IF Get(m.solvency_ratio) < th.solvency_critical
                 THEN <<RedFlag("solvency_ratio", "financial_stability", "critical")>>
                 ELSE IF Get(m.solvency_ratio) < th.solvency_high
                 THEN <<RedFlag("solvency_ratio", "financial_stability", "high")>>
                 ELSE IF Get(m.solvency_ratio) < th.solvency_medium
                 THEN <<RedFlag("solvency_ratio", "financial_stability", "medium")>>
                 ELSE <<>>
            ELSE <<>>
    IN operating \o annual \o solvency

\* _check_debt_risk(metrics)
_check_debt_risk(m) ==
    LET th == severity_thresholds
        interest ==
            IF IsNotNone(m.interest_costs) /\ Truthy(m.num_apartments)
            THEN LET i == Abs(Get(m.interest_costs))
                     n == Get(m.num_apartments)
                 IN IF RatioGT(i, n, th.interest_per_apt_critical, 1)
                    THEN <<RedFlag("interest_per_apt", "debt_risk", "critical")>>
                    ELSE IF RatioGT(i, n, th.interest_per_apt_high, 1)
                    THEN <<RedFlag("interest_per_apt", "debt_risk", "high")>>
                    ELSE IF RatioGT(i, n, th.interest_per_apt_medium, 1)
                    THEN <<RedFlag("interest_per_apt", "debt_risk", "medium")>>
                    ELSE <<>>
            ELSE <<>>
        debt ==
            IF Truthy(m.total_debt) /\ Truthy(m.equity) /\ Get(m.equity) > 0
            THEN LET d == Get(m.total_debt)
                     e == Get(m.equity)
                 IN IF RatioGT(d, e, th.debt_to_equity_critical_halves, 2)
                    THEN <<RedFlag("debt_to_equity", "debt_risk", "critical")>>
                    ELSE IF RatioGT(d, e, th.debt_to_equity_high_halves, 2)
                    THEN <<RedFlag("debt_to_equity", "debt_risk", "high")>>
                    ELSE <<>>
            ELSE <<>>
    IN interest \o debt

\* _check_liquidity(metrics)
_check_liquidity(m) ==
    LET th == severity_thresholds
        cash ==
            IF IsNotNone(m.cash_flow)
            THEN IF Get(m.cash_flow) < th.negative_cash_flow_critical
                 THEN <<RedFlag("cash_flow", "liquidity", "critical")>>
                 ELSE IF Get(m.cash_flow) < th.negative_cash_flow_high
                 THEN <<RedFlag("cash_flow", "liquidity", "high")>>
                 ELSE <<>>
            ELSE <<>>
        assets ==
            IF IsNotNone(m.liquid_assets) /\ Truthy(m.num_apartments)
            THEN LET a == Get(m.liquid_assets)
                     n == Get(m.num_apartments)
                 IN IF RatioLT(a, n, th.reserves_per_apt_critical, 1)
                    THEN <<RedFlag("assets_per_apt", "liquidity", "high")>>
                    ELSE IF RatioLT(a, n, th.reserves_per_apt_low, 1)
                    THEN <<RedFlag("assets_per_apt", "liquidity", "medium")>>
                    ELSE <<>>
            ELSE <<>>
    IN cash \o assets

\* _check_maintenance(metrics)
_check_maintenance(m) ==
    LET th == severity_thresholds
        has_reserves == IsNotNone(m.maintenance_reserves) /\ Truthy(m.num_apartments)
        r == Get(m.maintenance_reserves)
        n == Get(m.num_apartments)
        building ==
            IF Truthy(m.building_year)
            THEN LET building_age == 2024 - Get(m.building_year)
                 IN (IF building_age > th.building_age_very_old
                     THEN <<RedFlag("building_age", "maintenance", "high")>>
                     ELSE IF building_age > th.building_age_old
                     THEN <<RedFlag("building_age", "maintenance", "medium")>>
                     ELSE <<>>)
                    \o (IF building_age > th.building_age_old /\ has_reserves
                           /\ RatioLT(r, n, 50000, 1)
                        THEN <<RedFlag("reserves_old_building", "maintenance", "high")>>
                        ELSE <<>>)
            ELSE <<>>
        reserves ==
            IF has_reserves /\ RatioLT(r, n, 20000, 1)
            THEN <<RedFlag("reserves_per_apt", "maintenance", "medium")>>
            ELSE <<>>
    IN building \o reserves

\* getattr: the dataclass BRFMetrics declares no annual_fee_per_sqm, an
\* instance has the attribute only when a caller has set it
HasAttr(m, name) == name \in DOMAIN m

SetAttr(m, name, v) ==
    [f \in DOMAIN m \cup {name} |-> IF f = name THEN v ELSE m[f]]

\* _check_operational_issues(metrics): the flags, or the exception raised by
\* reading metrics.annual_fee_per_sqm
_check_operational_issues(m) ==
    IF ~HasAttr(m, "annual_fee_per_sqm")
    THEN [raised |-> "AttributeError", flags |-> <<>>]
    ELSE LET th == severity_thresholds
             fee == m["annual_fee_per_sqm"]
         IN [raised |-> None,
             flags |->
                IF IsNotNone(fee)
                THEN IF RatioGT(Get(fee), 12, th.monthly_fee_high, 1)
                     THEN <<RedFlag("monthly_equivalent", "operational", "medium")>>
                     ELSE IF RatioGT(Get(fee), 12, th.monthly_fee_medium, 1)
                     THEN <<RedFlag("monthly_equivalent", "operational", "low")>>
                     ELSE <<>>
                ELSE <<>>]

\* what the query collaborator's answer to a fixed question amounts to: it
\* holds one of the words looked for, it holds none, or the query raised
Answers == {"flagged", "clear", "error"}

\* RedFlagDetector(): query_interface is None
NoCollaborator ==
    [present |-> FALSE, auditor |-> "clear", disputes |-> "clear", assessments |-> "clear"]

\* _check_governance_issues(brf_name), qi the collaborator's three answers
_check_governance_issues(qi) ==
    IF ~qi.present THEN <<>>
    ELSE IF qi.auditor = "flagged"
         THEN <<RedFlag("auditor_remarks", "governance", "high")>>
         ELSE <<>>

\* _check_legal_issues(brf_name)
_check_legal_issues(qi) ==
    IF ~qi.present THEN <<>>
    ELSE (IF qi.disputes = "flagged"
          THEN <<RedFlag("legal_disputes", "legal", "high")>> ELSE <<>>)
         \o (IF qi.assessments = "flagged"
             THEN <<RedFlag("special_assessments", "governance", "medium")>> ELSE <<>>)

\* _calculate_overall_risk with the second tier reached by two high flags
_calculate_overall_risk_two_high(severity_counts) ==
    LET critical == severity_counts.critical
        high     == severity_counts.high
        medium   == severity_counts.medium
    IN IF critical >= 2 THEN "KRITISK"
       ELSE IF critical >= 1 \/ high >= 2 THEN "HÖG"
       ELSE IF high >= 1 \/ medium >= 3 THEN "MÅTTLIG"
       ELSE IF medium >= 1 THEN "LÅG"
       ELSE "MINIMAL"

\* _calculate_overall_risk with its thresholds met only by the exact count
_calculate_overall_risk_exact_counts(severity_counts) ==
    LET critical == severity_counts.critical
        high     == severity_counts.high
        medium   == severity_counts.medium
    IN IF critical = 2 THEN "KRITISK"
       ELSE IF critical >= 1 \/ high = 3 THEN "HÖG"
       ELSE IF high >= 1 \/ medium = 3 THEN "MÅTTLIG"
       ELSE IF medium >= 1 THEN "LÅG"
       ELSE "MINIMAL"

\* _calculate_overall_risk(severity_counts)
_calculate_overall_risk(severity_counts) ==
    LET critical == severity_counts.critical
        high     == severity_counts.high
        medium   == severity_counts.medium
    IN IF critical >= 2 THEN "KRITISK"
       ELSE IF critical >= 1 \/ high >= 3 THEN "HÖG"
       ELSE IF high >= 1 \/ medium >= 3 THEN "MÅTTLIG"
       ELSE IF medium >= 1 THEN "LÅG"
       ELSE "MINIMAL"

\* _generate_summary: the no-issues sentence, or the count and risk level
NoIssuesSummary == "Inga allvarliga varningssignaler hittades"

_generate_summary(severity_counts, risk_level) ==
    LET total == severity_counts.critical + severity_counts.high
                 + severity_counts.medium + severity_counts.low
    IN IF total = 0 THEN NoIssuesSummary
       ELSE "varningssignaler identifierade"

\* the actions _generate_immediate_actions appends for the flags, in the
\* order appended, before the default is considered
actions_appended(red_flags) ==
    LET Sev(s) == {red_flags[i] : i \in {j \in 1..Len(red_flags) :
                                            red_flags[j].severity = s}}
        critical_flags == Sev("critical")
        urgent == critical_flags \cup Sev("high")
        all == Range(red_flags)
        In(S, c) == \E rf \in S : rf.category = c
    IN (IF critical_flags # {} THEN <<"avoid_purchase">> ELSE <<>>)
       \o (IF In(urgent, "financial_stability") THEN <<"five_years_reports">> ELSE <<>>)
       \o (IF In(urgent, "debt_risk") THEN <<"interest_and_amortization">> ELSE <<>>)
       \o (IF In(urgent, "liquidity") THEN <<"liquidity_plan">> ELSE <<>>)
       \o (IF In(urgent, "maintenance") THEN <<"maintenance_plan">> ELSE <<>>)
       \o (IF In(all, "governance") THEN <<"read_minutes">> ELSE <<>>)
       \o (IF In(all, "legal") THEN <<"disputes_information">> ELSE <<>>)

\* _generate_immediate_actions without its last step: no default
_generate_immediate_actions_without_default(red_flags) == actions_appended(red_flags)

\* _generate_immediate_actions(red_flags): `if not actions:` the default
_generate_immediate_actions(red_flags) ==
    IF actions_appended(red_flags) = <<>> THEN <<"normal_due_diligence">>
    ELSE actions_appended(red_flags)

\* _severity_sort_key with the order of the tiers turned round
_severity_sort_key_ascending(severity) ==
    CASE severity = "critical" -> 3
      [] severity = "high" -> 2
      [] severity = "medium" -> 1
      [] severity = "low" -> 0
      [] OTHER -> 999

\* _severity_sort_key(severity)
_severity_sort_key(severity) ==
    CASE severity = "critical" -> 0
      [] severity = "high" -> 1
      [] severity = "medium" -> 2
      [] severity = "low" -> 3
      [] OTHER -> 999

CountSeverity(red_flags, s) ==
    Cardinality({i \in 1..Len(red_flags) : red_flags[i].severity = s})

\* no call of detect_red_flags yet
NoReport ==
    [called |-> FALSE, raised |-> None, total_red_flags |-> 0, critical_count |-> 0,
     high_count |-> 0, medium_count |-> 0, low_count |-> 0, red_flags |-> <<>>,
     overall_risk_level |-> "", summary |-> "", immediate_actions |-> <<>>]

\* the flags of the checks in the order detect_red_flags extends its list
AllChecks(m, operational, qi) ==
    _check_financial_stability(m) \o _check_debt_risk(m) \o _check_liquidity(m)
    \o _check_maintenance(m) \o operational
    \o (IF qi.present THEN _check_governance_issues(qi) \o _check_legal_issues(qi)
        ELSE <<>>)

\* detect_red_flags(metrics), qi the detector's query_interface
detect_red_flags(m, qi) ==
    LET operational == _check_operational_issues(m)
    IN IF operational.raised # None
       THEN [NoReport EXCEPT !.called = TRUE, !.raised = operational.raised]
       ELSE LET red_flags == AllChecks(m, operational.flags, qi)
                severity_counts ==
                    [critical |-> CountSeverity(red_flags, "critical"),
                     high     |-> CountSeverity(red_flags, "high"),
                     medium   |-> CountSeverity(red_flags, "medium"),
                     low      |-> CountSeverity(red_flags, "low")]
                overall_risk == _calculate_overall_risk(severity_counts)
            IN [called |-> TRUE,
                raised |-> None,
                total_red_flags |-> Len(red_flags),
                critical_count |-> severity_counts.critical,
                high_count |-> severity_counts.high,
                medium_count |-> severity_counts.medium,
                low_count |-> severity_counts.low,
                red_flags |->
                    SortAscStable(red_flags,
                                  [i \in 1..Len(red_flags) |->
                                     _severity_sort_key(red_flags[i].severity)]),
                overall_risk_level |-> overall_risk,
                summary |-> _generate_summary(severity_counts, overall_risk),
                immediate_actions |-> _generate_immediate_actions(red_flags)]

----------------------------------------------------------------------------
(* BRFDatabase: the rows of one BRF in brfs, brf_financial_metrics and     *)
(* brf_analysis_cache, and the optional analysis cache over them           *)

\* the fields of the BRFFinancialMetrics dataclass
BRFFinancialMetrics_fields ==
    {"id", "brf_id", "annual_result", "operating_result", "total_income",
     "total_expenses", "interest_costs", "maintenance_costs", "operation_costs",
     "administration_costs", "cash_flow", "cash_flow_operations",
     "cash_flow_investments", "cash_flow_financing", "liquid_assets",
     "current_assets", "fixed_assets", "total_assets", "current_liabilities",
     "long_term_debt", "total_debt", "equity", "equity_start_of_year",
     "solvency_ratio", "annual_fee_per_sqm", "annual_fee_per_apartment",
     "maintenance_reserves", "renovation_fund", "annual_result_previous_year",
     "equity_previous_year", "extracted_at", "extraction_method",
     "data_quality_score"}

\* the attributes _calculate_metrics_hash reads, in the order it reads them
HashedFields ==
    <<"annual_result", "operating_result", "total_debt", "equity", "solvency_ratio",
      "liquid_assets", "cash_flow", "interest_costs", "monthly_fee_per_sqm",
      "maintenance_reserves">>

\* the columns of brf_financial_metrics that the callers here write; every
\* other column stays NULL
MetricsColumns == {"total_debt", "annual_fee_per_sqm"}

\* the columns of brfs that the callers here write
BrfColumns == {"building_year"}

\* a database in which nothing has been stored for the BRF
EmptyDatabase ==
    [brfs |-> Null, brf_financial_metrics |-> Null, brf_analysis_cache |-> Null,
     call |-> "none", analysis_version |-> "", raised |-> None, returned |-> Null]

\* a dict of column values: the keys given and the value of each
Dict(keys, values) == [keys |-> keys, values |-> values]

\* UPDATE ... SET key = ? for each key of the dict
UpdateRow(row, d) ==
    [c \in DOMAIN row |-> IF c \in d.keys THEN d.values[c] ELSE row[c]]

\* INSERT ... (keys) VALUES (...): the columns not named are NULL
InsertRow(columns, d) ==
    [c \in columns |-> IF c \in d.keys THEN d.values[c] ELSE Null]

\* create_or_update_brf(brf_name, **kwargs)
create_or_update_brf(db, kwargs) ==
    LET row == IF db.brfs # Null
               THEN [columns |-> UpdateRow(db.brfs[1].columns, kwargs),
                     has_metrics |-> db.brfs[1].has_metrics]
               ELSE [columns |-> InsertRow(BrfColumns, kwargs), has_metrics |-> FALSE]
    IN [db EXCEPT !.brfs = Some(row), !.call = "create_or_update_brf",
                  !.analysis_version = "", !.raised = None, !.returned = Null]

\* save_financial_metrics(brf_id, metrics) for the id of the BRF's row
save_financial_metrics(db, metrics_dict) ==
    LET row == IF db.brf_financial_metrics # Null
               THEN UpdateRow(db.brf_financial_metrics[1], metrics_dict)
               ELSE InsertRow(MetricsColumns, metrics_dict)
    IN [db EXCEPT !.brf_financial_metrics = Some(row),
                  !.brfs = Some([db.brfs[1] EXCEPT !.has_metrics = TRUE]),
                  !.call = "save_financial_metrics",
                  !.analysis_version = "", !.raised = None, !.returned = Null]

\* get_financial_metrics(brf_id): the row as a BRFFinancialMetrics, or None
get_financial_metrics(db) == db.brf_financial_metrics

\* _calculate_metrics_hash(metrics): the attribute reads of the dict literal
\* fail on the first name BRFFinancialMetrics does not have; otherwise the
\* digest of the values read, which is modelled by those values
_calculate_metrics_hash(m) ==
    IF \E i \in 1..Len(HashedFields) : HashedFields[i] \notin BRFFinancialMetrics_fields
    THEN [raised |-> "AttributeError", digest |-> Null]
    ELSE [raised |-> None,
          digest |-> Some([i \in 1..Len(HashedFields) |->
                             IF HashedFields[i] \in DOMAIN m THEN m[HashedFields[i]]
                             ELSE Null])]

\* `self._calculate_metrics_hash(metrics) if metrics else None`
metrics_hash_or_none(db) ==
    IF get_financial_metrics(db) = Null THEN [raised |-> None, digest |-> Null]
    ELSE _calculate_metrics_hash(get_financial_metrics(db)[1])

\* what an analysis is computed from: the columns of the BRF's row and its
\* metrics row
StoredInputs(db) ==
    [brf |-> IF db.brfs = Null THEN Null ELSE Some(db.brfs[1].columns),
     metrics |-> db.brf_financial_metrics]

\* save_analysis_cache(brf_id, analysis, analysis_version); the row also
\* remembers the inputs that were stored when it was written
save_analysis_cache(db, analysis, analysis_version) ==
    LET h == metrics_hash_or_none(db)
    IN IF h.raised # None
       THEN [db EXCEPT !.call = "save_analysis_cache",
                       !.analysis_version = analysis_version,
                       !.raised = h.raised, !.returned = Null]
       ELSE [db EXCEPT !.brf_analysis_cache =
                           Some([analysis |-> analysis,
                                 analysis_version |-> analysis_version,
                                 metrics_hash |-> h.digest,
                                 computed_from |-> StoredInputs(db)]),
                       !.call = "save_analysis_cache",
                       !.analysis_version = analysis_version,
                       !.raised = None, !.returned = Null]

\* the row `SELECT * ... WHERE brf_id = ? AND analysis_version = ?` finds
SelectCache(db, analysis_version) ==
    IF db.brf_analysis_cache # Null
       /\ db.brf_analysis_cache[1].analysis_version = analysis_version
    THEN db.brf_analysis_cache
    ELSE Null

\* get_analysis_cache(brf_id, analysis_version)
get_analysis_cache(db, analysis_version) ==
    LET row == SelectCache(db, analysis_version)
        h == metrics_hash_or_none(db)
        called == [db EXCEPT !.call = "get_analysis_cache",
                             !.analysis_version = analysis_version,
                             !.raised = None, !.returned = Null]
    IN IF row = Null THEN called
       ELSE IF h.raised # None THEN [called EXCEPT !.raised = h.raised]
       ELSE IF row[1].metrics_hash # h.digest
            THEN [called EXCEPT !.brf_analysis_cache = Null]
       ELSE [called EXCEPT !.returned = row]

----------------------------------------------------------------------------
(* State                                                                   *)

NoOp == [name |-> "none", added |-> 0, query |-> <<>>, emb |-> 0, k |-> 0,
         where |-> None, alpha |-> 0, hybrid |-> FALSE]

Call(name) == [NoOp EXCEPT !.name = name]

StoreInit ==
    /\ enable_hybrid \in BOOLEAN
    /\ client = [n \in CollNames |-> NoCollection]
    /\ collection = None
    /\ hybrid_retriever = NoRetriever
    /\ cache = NoCache
    /\ hashSeed \in Seeds
    /\ op = NoOp
    /\ outcome = "ok"
    /\ res = NoResult
    /\ persisted = Snapshot(NoRetriever)

ScoreInit ==
    /\ metrics = NullMetrics
    /\ health = NoHealth
    /\ report = NoReport
    /\ query_interface = NoCollaborator

DatabaseInit == database = EmptyDatabase

Init == StoreInit /\ ScoreInit /\ DatabaseInit

----------------------------------------------------------------------------
(* BRFVectorStore operations, each over the inputs it is given             *)

\* a new process: BRFVectorStore(persist_directory, enable_hybrid) over the
\* same persist directory and cache file, with a hash seed of its own
Restart(seeds) ==
    /\ hashSeed' \in seeds
    /\ collection' = None
    /\ hybrid_retriever' = NoRetriever
    /\ op' = Call("restart")
    /\ outcome' = "ok"
    /\ res' = NoResult
    /\ UNCHANGED <<enable_hybrid, client, cache, persisted>>

\* create_collection(name, reset)
create_collection(name, reset) ==
    LET deleted == IF reset THEN [client EXCEPT ![name] = NoCollection] ELSE client
        created == IF deleted[name].exists THEN deleted
                   ELSE [deleted EXCEPT ![name] = EmptyCollection]
    IN /\ client' = created
       /\ collection' = name
       /\ hybrid_retriever' = IF enable_hybrid THEN NewHybridRetriever(cache)
                              ELSE hybrid_retriever
       /\ op' = Call("create_collection")
       /\ outcome' = "ok"
       /\ res' = NoResult
       /\ UNCHANGED <<enable_hybrid, cache, hashSeed, persisted>>

CreateCollection(names, resets) ==
    \E name \in names, reset \in resets : create_collection(name, reset)

\* the rebuild of add_documents without force_rebuild: an index that exists
\* is kept
RebuildAfterAdd_not_forced(db, how) ==
    IF enable_hybrid /\ hybrid_retriever.created
    THEN build_bm25_index(hybrid_retriever, cache, FALSE, collection, db, how)
    ELSE [retriever |-> hybrid_retriever, file |-> cache, raised |-> None,
          saved |-> FALSE]

\* what build_bm25_index does to the retriever and the file when
\* add_documents calls it (lines 58-60)
RebuildAfterAdd(db, how) ==
    IF enable_hybrid /\ hybrid_retriever.created
    THEN build_bm25_index(hybrid_retriever, cache, TRUE, collection, db, how)
    ELSE [retriever |-> hybrid_retriever, file |-> cache, raised |-> None,
          saved |-> FALSE]

\* add_documents that returns quietly when there is no collection
add_documents_returns_quietly(batch, how) ==
    /\ op' = [Call("add_documents") EXCEPT !.added = Len(batch)]
    /\ res' = NoResult
    /\ IF collection = None
       THEN /\ outcome' = "ok"
            /\ UNCHANGED <<storeVars, persisted>>
       ELSE LET db == [client EXCEPT ![collection] = collection_add(client[collection], batch)]
                b  == RebuildAfterAdd(db, how)
            IN /\ Len(db[collection].ids) <= MaxDocs
               /\ client' = db
               /\ hybrid_retriever' = b.retriever
               /\ cache' = b.file
               /\ persisted' = Remember(persisted, b)
               /\ outcome' = IF b.raised = None THEN "ok" ELSE b.raised
               /\ UNCHANGED <<enable_hybrid, collection, hashSeed>>

\* add_documents(texts, embeddings, metadatas, ids)
add_documents(batch, how) ==
    /\ op' = [Call("add_documents") EXCEPT !.added = Len(batch)]
    /\ res' = NoResult
    /\ IF collection = None
       THEN /\ outcome' = "ValueError"
            /\ UNCHANGED <<storeVars, persisted>>
       ELSE LET db == [client EXCEPT ![collection] = collection_add(client[collection], batch)]
                b  == RebuildAfterAdd(db, how)
            IN /\ Len(db[collection].ids) <= MaxDocs
               /\ client' = db
               /\ hybrid_retriever' = b.retriever
               /\ cache' = b.file
               /\ persisted' = Remember(persisted, b)
               /\ outcome' = IF b.raised = None THEN "ok" ELSE b.raised
               /\ UNCHANGED <<enable_hybrid, collection, hashSeed>>

\* the save outcomes that matter to a call: one when nothing is saved
Saves(saves, building) == IF building THEN saves ELSE {"written"}

AddDocuments(ids, saves) ==
    \E n \in 1..MaxBatch :
        \E batch \in {b \in IdSeqs(n) : Range(b) \subseteq ids} :
            \E how \in Saves(saves, collection # None /\ enable_hybrid
                                    /\ hybrid_retriever.created) :
                add_documents(batch, how)

\* delete_collection(name)
delete_collection(name) ==
    /\ op' = Call("delete_collection")
    /\ res' = NoResult
    /\ UNCHANGED persisted
    /\ IF client[name].exists
       THEN /\ client' = [client EXCEPT ![name] = NoCollection]
            /\ collection' = None
            /\ outcome' = "ok"
            /\ UNCHANGED <<enable_hybrid, hybrid_retriever, cache, hashSeed>>
       ELSE \* client.delete_collection raises: no such collection
            /\ outcome' = "ValueError"
            /\ UNCHANGED storeVars

DeleteCollection(names) == \E name \in names : delete_collection(name)

\* hybrid_retriever.clear_cache()
ClearCache ==
    /\ hybrid_retriever.created
    /\ hybrid_retriever' = clear_cache(hybrid_retriever)
    /\ cache' = NoCache
    /\ op' = Call("clear_cache")
    /\ outcome' = "ok"
    /\ res' = NoResult
    /\ persisted' = Snapshot(NoRetriever)
    /\ UNCHANGED <<enable_hybrid, client, collection, hashSeed>>

DenseResult(r) ==
    [r EXCEPT !.distances = [i \in 1..Len(r.distances) |-> <<r.distances[i], 1>>]]

\* the condition of line 78: the hybrid branch is taken
TakesHybrid(use_hybrid_arg, query_text) ==
    LET use_hybrid == IF use_hybrid_arg = None THEN enable_hybrid
                      ELSE use_hybrid_arg = "True"
    IN use_hybrid /\ hybrid_retriever.created /\ query_text # <<>>

\* BRFVectorStore.search(query_embedding, n_results, where, query_text, use_hybrid),
\* entered through the call named `entry`
BRFVectorStore_search(entry, emb, n_results, where, query_text, use_hybrid_arg, how) ==
    LET hybrid == TakesHybrid(use_hybrid_arg, query_text)
        h == HybridRetriever_search(hybrid_retriever, cache, collection, client,
                                    query_text, emb, n_results, where, 7, hashSeed, how)
    IN /\ op' = [name |-> entry, added |-> 0, query |-> query_text, emb |-> emb,
                 k |-> n_results, where |-> where, alpha |-> 7,
                 hybrid |-> collection # None /\ hybrid]
       /\ IF collection = None
          THEN /\ outcome' = "ValueError"
               /\ res' = NoResult
               /\ UNCHANGED <<storeVars, persisted>>
          ELSE IF hybrid
          THEN /\ hybrid_retriever' = h.retriever
               /\ cache' = h.file
               /\ persisted' = Remember(persisted, h)
               /\ outcome' = IF h.raised = None THEN "ok" ELSE h.raised
               /\ res' = h.result
               /\ UNCHANGED <<enable_hybrid, client, collection, hashSeed>>
          ELSE /\ outcome' = "ok"
               /\ res' = DenseResult(vector_only_search(collection, client, emb,
                                                        n_results, where))
               /\ UNCHANGED <<storeVars, persisted>>

\* the store's search called directly
search(emb, n_results, where, query_text, use_hybrid_arg, how) ==
    BRFVectorStore_search("search", emb, n_results, where, query_text, use_hybrid_arg, how)

Search(queries, embs, filters, saves) ==
    \E emb \in embs, n_results \in 1..MaxK, where \in filters,
       query_text \in queries \cup {<<>>}, use_hybrid_arg \in {None, "False"} :
        \E how \in Saves(saves, collection # None
                                /\ TakesHybrid(use_hybrid_arg, query_text)
                                /\ ~hybrid_retriever.bm25_index.built) :
            search(emb, n_results, where, query_text, use_hybrid_arg, how)

\* the parameters of DocumentProcessor.search(self, query, n_results, brf_name)
DocumentProcessor_search_parameters == {"query", "n_results", "brf_name"}

\* DocumentProcessor.search called with the keywords given: a keyword that is
\* no parameter is a TypeError; otherwise the query is embedded (emb) and the
\* store is searched with the embedding, n_results and the filter, and
\* neither query_text nor use_hybrid
DocumentProcessor_search(entry, keywords, query, emb, n_results, brf_name, how) ==
    IF ~(keywords \subseteq DocumentProcessor_search_parameters)
    THEN /\ op' = [name |-> entry, added |-> 0, query |-> query, emb |-> 0,
                   k |-> n_results, where |-> brf_name, alpha |-> 0, hybrid |-> FALSE]
         /\ outcome' = "TypeError"
         /\ res' = NoResult
         /\ UNCHANGED <<storeVars, persisted>>
    ELSE BRFVectorStore_search(entry, emb, n_results, brf_name, <<>>, None, how)

\* BRFQueryInterface.query(question, brf_name) and .chat(message, brf_name):
\* the retrieval they start with
BRFQueryInterface_query(question, emb, n_results, brf_name, how) ==
    DocumentProcessor_search("query", {"query", "n_results", "brf_name", "use_hybrid"},
                             question, emb, n_results, brf_name, how)

\* processor.search(query, n_results=3) as the ingestion example calls it
processor_search(query, emb, n_results, brf_name, how) ==
    DocumentProcessor_search("processor_search", {"query", "n_results", "brf_name"},
                             query, emb, n_results, brf_name, how)

\* hybrid_retriever.search(query, query_embedding, n_results, where, alpha)
\* called on the retriever itself, with the weight given
hybrid_search(query, emb, n_results, where, alpha, how) ==
    LET h == HybridRetriever_search(hybrid_retriever, cache, collection, client,
                                    query, emb, n_results, where, alpha, hashSeed, how)
    IN /\ hybrid_retriever.created
       /\ op' = [name |-> "hybrid_search", added |-> 0, query |-> query, emb |-> emb,
                 k |-> n_results, where |-> where, alpha |-> alpha, hybrid |-> TRUE]
       /\ hybrid_retriever' = h.retriever
       /\ cache' = h.file
       /\ persisted' = Remember(persisted, h)
       /\ outcome' = IF h.raised = None THEN "ok" ELSE h.raised
       /\ res' = h.result
       /\ UNCHANGED <<enable_hybrid, client, collection, hashSeed>>

HybridSearch(queries, embs, filters, alphas, saves) ==
    \E query \in queries, emb \in embs, n_results \in 1..MaxK, where \in filters,
       alpha \in alphas :
        \E how \in Saves(saves, ~hybrid_retriever.bm25_index.built) :
            hybrid_search(query, emb, n_results, where, alpha, how)

----------------------------------------------------------------------------
(* Spec: the life of the store, the index and the cache file.  Two         *)
(* collection names, two chunks, every outcome of saving the cache.        *)

LifeIds == {"d1", "d2"}
LifeSeeds == {CHOOSE s \in Seeds : TRUE}
LifeQueries == {<<"Lan">>}
LifeEmbs == {0}
LifeFilters == {None}

LifeRestart == Restart(LifeSeeds)
LifeCreate == CreateCollection(CollNames, BOOLEAN)
LifeAdd == AddDocuments(LifeIds, SaveOutcomes)
LifeDelete == DeleteCollection(CollNames)
LifeSearch == Search(LifeQueries, LifeEmbs, LifeFilters, SaveOutcomes)

Next ==
    \/ LifeRestart
    \/ LifeCreate
    \/ LifeAdd
    \/ LifeDelete
    \/ ClearCache
    \/ LifeSearch

Spec ==
    /\ Init
    /\ hashSeed \in LifeSeeds
    /\ [][Next /\ UNCHANGED <<scoreVars, dbVars>>]_vars

----------------------------------------------------------------------------
(* SearchSpec: searching one collection of up to MaxDocs of the three      *)
(* chunks, under every hash seed, filter and weight.  The cache file is    *)
(* always written.                                                         *)

OneName == {"brf_reports"}
Written == {"written"}

QueryRestart == Restart(Seeds)
QueryCreate == CreateCollection(OneName, BOOLEAN)
QueryAdd == AddDocuments(DocIds, Written)
QueryDelete == DeleteCollection(OneName)
QuerySearch == Search(Queries, QueryEmbs, Filters, Written)
QueryHybridSearch == HybridSearch(Queries, QueryEmbs, Filters, Alphas, Written)

SearchNext ==
    \/ QueryRestart
    \/ QueryCreate
    \/ QueryAdd
    \/ QueryDelete
    \/ QuerySearch
    \/ QueryHybridSearch

SearchSpec ==
    /\ Init
    /\ enable_hybrid = TRUE
    /\ [][SearchNext /\ UNCHANGED <<scoreVars, dbVars>>]_vars

----------------------------------------------------------------------------
(* FusionSpec: one collection is created and filled, then searched once    *)
(* through the retriever, with every weight between the two rankings.      *)

\* alpha in tenths: 0.0, 0.3, the instance default 0.7, 1.0
FusionAlphas == {0, 3, 7, 10}

FuseCreate ==
    /\ op.name = NoOp.name
    /\ CreateCollection(OneName, {FALSE})

FuseAdd ==
    /\ op.name \in {"create_collection", "add_documents"}
    /\ AddDocuments(DocIds, Written)

FuseSearch ==
    /\ op.name = "add_documents"
    /\ HybridSearch(Queries, QueryEmbs, Filters, FusionAlphas, Written)

FusionNext ==
    \/ FuseCreate
    \/ FuseAdd
    \/ FuseSearch

FusionSpec ==
    /\ Init
    /\ enable_hybrid = TRUE
    /\ [][FusionNext /\ UNCHANGED <<scoreVars, dbVars>>]_vars

----------------------------------------------------------------------------
(* AskSpec: one collection is created and filled, then a question is asked *)
(* through the query interface or the document processor.                  *)

AskCreate ==
    /\ op.name = NoOp.name
    /\ CreateCollection(OneName, {FALSE})

AskAdd ==
    /\ op.name \in {"create_collection", "add_documents"}
    /\ AddDocuments(DocIds, Written)

AskQuestion ==
    /\ op.name = "add_documents"
    /\ \E question \in Queries, emb \in QueryEmbs, n_results \in 1..MaxK,
          brf_name \in Filters :
          BRFQueryInterface_query(question, emb, n_results, brf_name, "written")

AskProcessor ==
    /\ op.name = "add_documents"
    /\ \E query \in Queries, emb \in QueryEmbs, n_results \in 1..MaxK,
          brf_name \in Filters :
          processor_search(query, emb, n_results, brf_name, "written")

AskNext ==
    \/ AskCreate
    \/ AskAdd
    \/ AskQuestion
    \/ AskProcessor

AskInit == Init /\ enable_hybrid = TRUE

AskSpec == AskInit /\ [][AskNext /\ UNCHANGED <<scoreVars, dbVars>>]_vars

----------------------------------------------------------------------------
(* BRFAnalyzer operations                                                  *)

\* extract_metrics: the record the extraction queries filled in
ExtractMetrics ==
    /\ metrics = NullMetrics
    /\ ~health.computed
    /\ metrics' \in MetricsInputs
    /\ UNCHANGED <<health, detectVars>>

\* calculate_health_score(metrics)
CalculateHealthScore ==
    /\ ~health.computed
    /\ health' = calculate_health_score(metrics)
    /\ UNCHANGED <<metrics, detectVars>>

ScoreNext == ExtractMetrics \/ CalculateHealthScore

ScoreSpec ==
    /\ Init
    /\ enable_hybrid = TRUE
    /\ hashSeed \in LifeSeeds
    /\ [][ScoreNext /\ UNCHANGED <<storeVars, callVars, histVars, dbVars>>]_vars

----------------------------------------------------------------------------
(* The weighted sum on its own (OverallSpec): lines 121-127 applied to     *)
(* five sub-scores, those the scorers return and others in 0..100          *)

\* what max(0, min(100, 50 +/- adjustments)) can be: every adjustment of
\* every scorer is a multiple of 5
ScorerValues == {5 * i : i \in 0..20}

FinancialScores == {0, 25, 100}
CostScores == {0, 55}
LiquidityScores == {0, 35}
DebtScores == ScorerValues \cup {1, 2, 3}
MaintenanceScores == ScorerValues \cup {12, 24, 72, 92, 96}

WeighSubScores ==
    /\ ~health.computed
    /\ \E a \in FinancialScores, b \in CostScores, c \in LiquidityScores,
          d \in DebtScores, e \in MaintenanceScores :
          health' = [computed |-> TRUE,
                     overall_score |-> WeightedOverall(a, b, c, d, e),
                     financial_stability_score |-> a,
                     cost_efficiency_score |-> b,
                     liquidity_score |-> c,
                     debt_management_score |-> d,
                     maintenance_readiness_score |-> e]
    /\ UNCHANGED <<metrics, detectVars, storeVars, callVars, histVars, dbVars>>

OverallNext == WeighSubScores

OverallInit == Init /\ enable_hybrid = TRUE /\ hashSeed \in LifeSeeds

OverallSpec == OverallInit /\ [][OverallNext]_vars

----------------------------------------------------------------------------
(* Red-flag detection (DetectSpec): metrics arrive, a RedFlagDetector is   *)
(* constructed and detect_red_flags is called on them                      *)

\* values on and around each threshold of severity_thresholds
FlagOperatingResults == {Null, Some(0), Some(-100000), Some(-300000), Some(-500000),
                         Some(-600000)}
FlagAnnualResults == {Null, Some(-1000000), Some(-2000000)}
FlagSolvencyRatios == {Null, Some(3), Some(5), Some(10), Some(12), Some(15)}
FlagInterestCosts == {Null, Some(-750000), Some(-800000), Some(-1250000), Some(-1500000),
                      Some(-2000000), Some(2500000)}
FlagApartments == {Null, Some(0), Some(50)}
FlagTotalDebts == {Null, Some(0), Some(2000000), Some(2500000), Some(3000000),
                   Some(4000000)}
FlagEquities == {Null, Some(0), Some(1000000), Some(-1000000)}
FlagCashFlows == {Null, Some(0), Some(-200000), Some(-300000), Some(-500000),
                  Some(-600000)}
FlagLiquidAssets == {Null, Some(0), Some(400000), Some(500000), Some(750000),
                     Some(1000000), Some(3000000)}
FlagBuildingYears == {Null, Some(0), Some(2010), Some(1964), Some(1963), Some(1944),
                      Some(1943), Some(1900)}
FlagMaintenanceReserves == {Null, Some(0), Some(900000), Some(1000000), Some(2000000),
                            Some(2500000), Some(6000000)}
FlagAnnualFees == {Null, Some(0), Some(720), Some(780), Some(840), Some(900)}

\* an association in trouble on every front
ProblematicMetrics ==
    [annual_result |-> Some(-2000000), operating_result |-> Some(-600000),
     interest_costs |-> Some(-800000), cash_flow |-> Some(-300000),
     liquid_assets |-> Some(750000), monthly_fee_per_sqm |-> Some(85),
     total_debt |-> Some(2500000), equity |-> Some(1000000), solvency_ratio |-> Some(12),
     maintenance_reserves |-> Some(900000), num_apartments |-> Some(50),
     building_year |-> Some(1950)]

FlagBaseMetrics == {NullMetrics, ProblematicMetrics}

\* BRFMetrics as the dataclass constructs them: each check's own fields in
\* every combination, the other fields all null or all problematic
ConstructedMetrics ==
    {[b EXCEPT !.operating_result = o, !.annual_result = a, !.solvency_ratio = s] :
        b \in FlagBaseMetrics, o \in FlagOperatingResults, a \in FlagAnnualResults,
        s \in FlagSolvencyRatios}
    \cup {[b EXCEPT !.interest_costs = i, !.num_apartments = n] :
            b \in FlagBaseMetrics, i \in FlagInterestCosts, n \in FlagApartments}
    \cup {[b EXCEPT !.total_debt = d, !.equity = e] :
            b \in FlagBaseMetrics, d \in FlagTotalDebts, e \in FlagEquities}
    \cup {[b EXCEPT !.cash_flow = c] : b \in FlagBaseMetrics, c \in FlagCashFlows}
    \cup {[b EXCEPT !.liquid_assets = l, !.num_apartments = n] :
            b \in FlagBaseMetrics, l \in FlagLiquidAssets, n \in FlagApartments}
    \cup {[b EXCEPT !.building_year = y, !.maintenance_reserves = r] :
            b \in FlagBaseMetrics, y \in FlagBuildingYears, r \in FlagMaintenanceReserves}

\* the same instances after a caller has set annual_fee_per_sqm on them
MetricsWithAnnualFee ==
    {SetAttr(m, "annual_fee_per_sqm", Null) : m \in ConstructedMetrics}
    \cup {SetAttr(b, "annual_fee_per_sqm", f) : b \in FlagBaseMetrics, f \in FlagAnnualFees}

DetectorInputs == ConstructedMetrics \cup MetricsWithAnnualFee

\* RedFlagDetector(query_interface): no collaborator, or one whose three
\* answers are these
Collaborators ==
    {NoCollaborator}
    \cup {[present |-> TRUE, auditor |-> a, disputes |-> d, assessments |-> s] :
            a \in {"flagged", "clear"}, d \in {"flagged", "clear"},
            s \in {"flagged", "clear"}}
    \cup {[present |-> TRUE, auditor |-> "error", disputes |-> "error",
           assessments |-> "error"]}

ReceiveMetrics ==
    /\ metrics = NullMetrics
    /\ ~report.called
    /\ metrics' \in DetectorInputs
    /\ UNCHANGED <<health, detectVars>>

\* RedFlagDetector(qi).detect_red_flags(metrics)
DetectRedFlags ==
    /\ ~report.called
    /\ \E qi \in Collaborators :
          /\ query_interface' = qi
          /\ report' = detect_red_flags(metrics, qi)
    /\ UNCHANGED <<metrics, health>>

DetectNext == ReceiveMetrics \/ DetectRedFlags

DetectSpec ==
    /\ Init
    /\ enable_hybrid = TRUE
    /\ hashSeed \in LifeSeeds
    /\ [][DetectNext /\ UNCHANGED <<storeVars, callVars, histVars, dbVars>>]_vars

----------------------------------------------------------------------------
(* The risk level on its own (RiskSpec): _calculate_overall_risk applied   *)
(* to the severity counts of a flag list                                   *)

\* most flags of one severity in a list
MaxCount == 4

CalculateOverallRisk ==
    /\ ~report.called
    /\ \E c \in 0..MaxCount, h \in 0..MaxCount, m \in 0..MaxCount, l \in 0..MaxCount :
          report' = [NoReport EXCEPT
                        !.called = TRUE,
                        !.total_red_flags = c + h + m + l,
                        !.critical_count = c,
                        !.high_count = h,
                        !.medium_count = m,
                        !.low_count = l,
                        !.overall_risk_level =
                            _calculate_overall_risk([critical |-> c, high |-> h,
                                                     medium |-> m, low |-> l])]
    /\ UNCHANGED <<metrics, health, query_interface, storeVars, callVars, histVars, dbVars>>

RiskNext == CalculateOverallRisk

RiskInit == Init /\ enable_hybrid = TRUE /\ hashSeed \in LifeSeeds

RiskSpec == RiskInit /\ [][RiskNext]_vars

----------------------------------------------------------------------------
(* The analysis cache (CacheSpec): one BRF is created, its building year   *)
(* and metrics are written, analyses are cached and looked up              *)

BrfBuildingYears == {1950, 2010}
MetricValues == {Null, Some(1000000), Some(2000000)}
Analyses == {[overall_score |-> 50], [overall_score |-> 80]}
AnalysisVersions == {"1.0", "2.0"}

\* the keyword arguments of create_or_update_brf: none, or a building year
BrfKwargs ==
    {Dict({}, [building_year |-> Null])}
    \cup {Dict({"building_year"}, [building_year |-> Some(y)]) : y \in BrfBuildingYears}

\* the metrics dicts of save_financial_metrics: any of the columns, any values
MetricsDicts ==
    {d \in {Dict(K, v) : K \in SUBSET MetricsColumns,
                          v \in [MetricsColumns -> MetricValues]} :
        \A c \in MetricsColumns \ d.keys : d.values[c] = Null}

CreateOrUpdateBrf ==
    \E kwargs \in BrfKwargs : database' = create_or_update_brf(database, kwargs)

\* the brf_id of the three calls below is the id of the BRF's row
SaveFinancialMetrics ==
    /\ database.brfs # Null
    /\ \E d \in MetricsDicts : database' = save_financial_metrics(database, d)

SaveAnalysisCache ==
    /\ database.brfs # Null
    /\ \E a \in Analyses, v \in AnalysisVersions :
          database' = save_analysis_cache(database, a, v)

GetAnalysisCache ==
    /\ database.brfs # Null
    /\ \E v \in AnalysisVersions : database' = get_analysis_cache(database, v)

CacheNext ==
    \/ CreateOrUpdateBrf
    \/ SaveFinancialMetrics
    \/ SaveAnalysisCache
    \/ GetAnalysisCache

CacheInit == Init /\ enable_hybrid = TRUE /\ hashSeed \in LifeSeeds

CacheSpec ==
    CacheInit /\ [][CacheNext /\ UNCHANGED <<storeVars, callVars, histVars, scoreVars>>]_vars

----------------------------------------------------------------------------
(* Claims about the store, the index and the cache file (Spec)             *)

\* C2: with hybrid retrieval enabled and a collection created, when
\* add_documents returns successfully the sparse index has been rebuilt
\* from the whole collection: its ids, texts, metadatas and index structure
\* are those of every document the collection now holds.
C2_AddRebuildsWholeIndex ==
    (op.name = "add_documents" /\ outcome = "ok" /\ enable_hybrid
        /\ hybrid_retriever.created)
    => LET all_docs == collection_get(client[collection])
       IN /\ hybrid_retriever.document_ids = all_docs.ids
          /\ hybrid_retriever.document_texts = all_docs.documents
          /\ hybrid_retriever.document_metadatas = all_docs.metadatas
          /\ hybrid_retriever.bm25_index =
                BM25Okapi([i \in 1..Len(all_docs.documents) |->
                             Tokenize(all_docs.documents[i])])

\* a one-document batch added to a collection that held a document already
C2_Witness ==
    /\ op.name = "add_documents" /\ outcome = "ok" /\ enable_hybrid
    /\ op.added = 1
    /\ Len(hybrid_retriever.document_ids) = 2

\* C3: whenever a hybrid search can be served from an index in memory, the
\* ids the sparse index holds are the ids of the store's current collection.
C3_IndexMatchesCollection ==
    (collection # None /\ hybrid_retriever.created /\ hybrid_retriever.bm25_index.built)
    => Range(hybrid_retriever.document_ids) = Range(client[collection].ids)

\* C4: add_documents with no collection ends in an error and changes neither
\* the store nor the sparse index nor the cache file.
C4_AddWithoutCollectionFails ==
    [][(op'.name = "add_documents" /\ collection = None)
        => (outcome' = "ValueError" /\ UNCHANGED storeVars)]_vars

\* the call failed after delete_collection, with an index in memory and a
\* cache file on disk that the failure could have touched
C4_Witness ==
    /\ op.name = "add_documents" /\ outcome = "ValueError"
    /\ collection = None
    /\ hybrid_retriever.bm25_index.built
    /\ cache.state = "ok"

\* C7: a hybrid search issued while the sparse index is absent completes
\* without error, and if the index holds no documents after the lazy build
\* the result is the dense-only ranking.
C7_SearchWithoutIndexCompletes ==
    [][(op'.name = "search" /\ op'.hybrid /\ ~hybrid_retriever.bm25_index.built)
        => /\ outcome' = "ok"
           /\ hybrid_retriever'.document_ids = <<>>
                => res'.ids = vector_only_search(collection, client, op'.emb,
                                                 op'.k, op'.where).ids]_vars

\* C8: a retriever constructed over a cache file that build_bm25_index wrote
\* holds the index structure, texts, ids and metadatas the building
\* retriever held, and scores every query as that one did.
C8_CacheRoundTrip ==
    (op.name = "create_collection" /\ enable_hybrid /\ cache.state = "ok")
    => /\ Snapshot(hybrid_retriever) = persisted
       /\ \A q \in Queries :
            get_scores(hybrid_retriever.bm25_index, Tokenize(q))
                = get_scores(persisted[1], Tokenize(q))

\* a retriever just constructed from a file that carries two documents
C8_Witness ==
    /\ op.name = "create_collection" /\ enable_hybrid /\ cache.state = "ok"
    /\ Len(hybrid_retriever.document_ids) = 2
    /\ hybrid_retriever.bm25_index.built

----------------------------------------------------------------------------
(* Claims about searching (SearchSpec)                                     *)

Searched == op.name \in {"search", "hybrid_search"} /\ outcome = "ok"

HybridSearched == Searched /\ op.hybrid

\* the candidates the last hybrid search drew from each side
SearchK == Min2(op.k * 3, Len(hybrid_retriever.document_texts))
DenseCandidates ==
    vector_only_search(collection, client, op.emb, SearchK, op.where).ids
SparseCandidates ==
    LET scored == _bm25_search(hybrid_retriever, op.query, SearchK)
    IN [i \in 1..Len(scored) |-> scored[i][1]]

Restrict(s, S) == SelectSeq(s, LAMBDA x : x \in S)

\* C1: every document a filtered search returns carries the metadata value
\* of the filter, on the hybrid path as on the dense one.
C1_FilterHonoured ==
    (Searched /\ op.where # None)
    => \A i \in 1..Len(res.metadatas) : res.metadatas[i] = op.where

\* C5: with alpha = 1.0 the ids returned, those of the dense candidates, come
\* in the order of the dense ranking; with alpha = 0.0 the ids returned are
\* the sparse ranking's first k.
C5_FusionBoundary ==
    HybridSearched
    => /\ op.alpha = 10
            => Restrict(res.ids, Range(DenseCandidates))
                  = Restrict(DenseCandidates, Range(res.ids))
       /\ op.alpha = 0 => res.ids = Take(SparseCandidates, op.k)

\* the same call again, in a process whose hash seed is `seed`
SearchAgain(seed) ==
    HybridRetriever_search(hybrid_retriever, cache, collection, client, op.query,
                           op.emb, op.k, op.where, op.alpha, seed, "written").result

\* C6: the same hybrid search on the same index and store returns the same
\* ids, documents and distances in the same order, whatever process runs it.
C6_SearchDeterministic ==
    HybridSearched => \A seed \in Seeds : SearchAgain(seed) = res

----------------------------------------------------------------------------
(* Claims about fusion (FusionSpec).  Scores are ratios <<numerator,       *)
(* denominator>> with a positive denominator.                              *)

\* the candidates of the last hybrid search: the sparse side's (id, score)
\* pairs and the dense side's ids and distances
SparsePairs == _bm25_search(hybrid_retriever, op.query, SearchK)
DenseQueryResult == vector_only_search(collection, client, op.emb, SearchK, op.where)

SparseIds(sparse) == {sparse[i][1] : i \in 1..Len(sparse)}
DenseIds(dense) == Range(dense.ids)

SparseValue(sparse, id) == sparse[CHOOSE i \in 1..Len(sparse) : sparse[i][1] = id][2]
DenseValue(dense, id) == dense.distances[IndexOf(dense.ids, id)]

SparseValues(sparse) == {sparse[i][2] : i \in 1..Len(sparse)}
DenseValues(dense) == Range(dense.distances)

\* the range of a set of values, 1 when they are all equal
RangeOrOne(S) == IF SetMax(S) > SetMin(S) THEN SetMax(S) - SetMin(S) ELSE 1

\* min-max normalized sparse score, 0 for an id the sparse side did not give
SparseNormalized(sparse, id) ==
    IF id \notin SparseIds(sparse) THEN <<0, 1>>
    ELSE <<SparseValue(sparse, id) - SetMin(SparseValues(sparse)),
           RangeOrOne(SparseValues(sparse))>>

\* 1 - min-max normalized distance, 0 for an id the dense side did not give
DenseNormalized(dense, id) ==
    IF id \notin DenseIds(dense) THEN <<0, 1>>
    ELSE <<RangeOrOne(DenseValues(dense))
             - (DenseValue(dense, id) - SetMin(DenseValues(dense))),
           RangeOrOne(DenseValues(dense))>>

\* alpha * d + (1 - alpha) * s for ratios d and s, alpha in tenths
WeightedSum(alpha, d, s) ==
    <<alpha * d[1] * s[2] + (10 - alpha) * s[1] * d[2], 10 * d[2] * s[2]>>

SameRatio(p, q) == p[1] * q[2] = q[1] * p[2]
RatioLE(p, q) == p[1] * q[2] <= q[1] * p[2]

\* the combined score behind the i-th entry of a result: 1 - distance
CombinedScoreOf(result, i) ==
    <<result.distances[i][2] - result.distances[i][1], result.distances[i][2]>>

\* the fusion of candidates with weight alpha, nothing cut off
FusedAll(sparse, dense, alpha) ==
    _fuse_results(hybrid_retriever, sparse, dense, alpha, Cardinality(DocIds), hashSeed)

ExpectedScore(sparse, dense, id) ==
    WeightedSum(op.alpha, DenseNormalized(dense, id), SparseNormalized(sparse, id))

\* C17: every id of the union of the sparse and dense candidates is scored
\* alpha * denseNormalized + (1 - alpha) * sparseNormalized, a side the id is
\* missing from counting 0, and no id outside the union is scored.
C17_CombinedScoreIsWeightedSum ==
    HybridSearched
    => LET sparse == SparsePairs
           dense  == DenseQueryResult
           all    == FusedAll(sparse, dense, op.alpha)
       IN /\ Range(all.ids) = SparseIds(sparse) \cup DenseIds(dense)
          /\ \A i \in 1..Len(all.ids) :
                SameRatio(CombinedScoreOf(all, i), ExpectedScore(sparse, dense, all.ids[i]))
          /\ \A i \in 1..Len(res.ids) :
                /\ res.ids[i] \in SparseIds(sparse) \cup DenseIds(dense)
                /\ SameRatio(CombinedScoreOf(res, i),
                             ExpectedScore(sparse, dense, res.ids[i]))

\* a search weighted 0.7 that returns an id only the sparse side gave, scored
\* 0.3, after an id both sides gave
C17_Witness ==
    /\ HybridSearched
    /\ op.alpha = 7
    /\ Len(res.ids) = 2
    /\ res.ids[1] \in Range(DenseCandidates) \cap Range(SparseCandidates)
    /\ res.ids[2] \in Range(SparseCandidates) \ Range(DenseCandidates)
    /\ SameRatio(CombinedScoreOf(res, 2), <<3, 10>>)

\* C18: the ids a hybrid search returns come in order of non-increasing
\* combined score, none twice, min(k, size of the candidate union) of them,
\* and none scores less than a candidate left out.
C18_TopKByCombinedScore ==
    HybridSearched
    => LET sparse == SparsePairs
           dense  == DenseQueryResult
           union  == SparseIds(sparse) \cup DenseIds(dense)
           Score(id) == ExpectedScore(sparse, dense, id)
       IN /\ \A i, j \in 1..Len(res.ids) :
                i < j => /\ RatioLE(Score(res.ids[j]), Score(res.ids[i]))
                         /\ res.ids[i] # res.ids[j]
          /\ Len(res.ids) = Min2(op.k, Cardinality(union))
          /\ \A id \in Range(res.ids), out \in union \ Range(res.ids) :
                RatioLE(Score(out), Score(id))

\* a search for one result among two candidates: the one returned scores
\* strictly more than the one left out, which the set iteration gives first
C18_Witness ==
    /\ HybridSearched
    /\ op.k = 1
    /\ op.alpha = 7
    /\ Len(res.ids) = 1
    /\ \E out \in (SparseIds(SparsePairs) \cup DenseIds(DenseQueryResult)) \ Range(res.ids) :
          /\ ~RatioLE(ExpectedScore(SparsePairs, DenseQueryResult, res.ids[1]),
                      ExpectedScore(SparsePairs, DenseQueryResult, out))
          /\ IndexOf(hashSeed, out) < IndexOf(hashSeed, res.ids[1])

\* the normalized value fusion gives an id on one side: its combined score
\* when the whole weight is on that side (alpha 10 the dense side, 0 the sparse)
NormalizedBy(sparse, dense, alpha, id) ==
    LET all == FusedAll(sparse, dense, alpha)
    IN CombinedScoreOf(all, IndexOf(all.ids, id))

InUnitInterval(p) == p[2] > 0 /\ 0 <= p[1] /\ p[1] <= p[2]

\* C19: each side's values are min-max normalized into [0,1] on their own;
\* when all values of a side are equal its range counts as 1, nothing is
\* divided by zero and every id of that side gets the same normalized value.
C19_MinMaxNormalization ==
    HybridSearched
    => LET sparse == SparsePairs
           dense  == DenseQueryResult
       IN /\ \A id \in SparseIds(sparse) :
                InUnitInterval(NormalizedBy(sparse, dense, 0, id))
          /\ \A id \in DenseIds(dense) :
                InUnitInterval(NormalizedBy(sparse, dense, 10, id))
          /\ \A i \in 1..Len(res.ids) :
                res.distances[i][2] = 10 * RangeOrOne(SparseValues(sparse))
                                         * RangeOrOne(DenseValues(dense) \cup
                                             (IF dense.distances = <<>> THEN {0} ELSE {}))
          /\ Cardinality(SparseValues(sparse)) = 1
                => \A id1, id2 \in SparseIds(sparse) :
                      SameRatio(NormalizedBy(sparse, dense, 0, id1),
                                NormalizedBy(sparse, dense, 0, id2))
          /\ Cardinality(DenseValues(dense)) = 1
                => \A id1, id2 \in DenseIds(dense) :
                      SameRatio(NormalizedBy(sparse, dense, 10, id1),
                                NormalizedBy(sparse, dense, 10, id2))

\* a search whose two sparse candidates score the same while the two dense
\* candidates lie at different distances
C19_Witness ==
    /\ HybridSearched
    /\ Len(res.ids) = 2
    /\ Cardinality(SparseIds(SparsePairs)) = 2
    /\ Cardinality(SparseValues(SparsePairs)) = 1
    /\ Cardinality(DenseValues(DenseQueryResult)) = 2

\* what the store holds for an id of the current collection
Stored(id) == collection # None /\ id \in Range(client[collection].ids)

\* C20: a hybrid search returns, for every id, the text and the metadata the
\* store holds for it, never an empty text or empty metadata in their place;
\* its four lists are equally long and distances[i] is 1 - the combined
\* score of ids[i].
C20_ReturnsStoredDocuments ==
    HybridSearched
    => /\ Len(res.documents) = Len(res.ids)
       /\ Len(res.metadatas) = Len(res.ids)
       /\ Len(res.distances) = Len(res.ids)
       /\ \A i \in 1..Len(res.ids) :
             /\ Stored(res.ids[i])
             /\ res.documents[i] = DocText(res.ids[i])
             /\ res.metadatas[i] = DocMeta(res.ids[i])
             /\ SameRatio(<<res.distances[i][2] - res.distances[i][1], res.distances[i][2]>>,
                          ExpectedScore(SparsePairs, DenseQueryResult, res.ids[i]))

----------------------------------------------------------------------------
(* Claims about the query path (AskSpec)                                   *)

Asked == op.name \in {"query", "processor_search"}

\* C21: with hybrid retrieval enabled, a question asked through the query
\* interface or the document processor completes and is ranked by the hybrid
\* branch of BRFVectorStore.search.
C21_QuestionsRankedByHybrid ==
    (Asked /\ enable_hybrid) => (outcome = "ok" /\ op.hybrid)

----------------------------------------------------------------------------
(* Claims about the health score (ScoreSpec)                               *)

SubScores(h) ==
    {h.financial_stability_score, h.cost_efficiency_score, h.liquidity_score,
     h.debt_management_score, h.maintenance_readiness_score}

\* 25a + 20b + 20c + 20d + 15e for the sub-scores of a health score
WeightedHundredths(h) ==
    25 * h.financial_stability_score + 20 * h.cost_efficiency_score
    + 20 * h.liquidity_score + 20 * h.debt_management_score
    + 15 * h.maintenance_readiness_score

C9_NullMetricsScoreFifty ==
    (health.computed /\ metrics = NullMetrics)
    => (health.overall_score = 50 /\ SubScores(health) = {50})

C9_Witness == health.computed /\ metrics = NullMetrics

\* C10: for every metrics input the five sub-scores and the overall score
\* lie in 0..100.
C10_ScoresInRange ==
    health.computed
    => /\ \A x \in SubScores(health) : x \in 0..100
       /\ health.overall_score \in 0..100

\* a large loss, the largest operating loss and poor solvency: the sum is
\* 50 - 30 - 25 - 20, and the score returned is 0
C10_Witness ==
    /\ health.computed
    /\ metrics.annual_result = Some(-500000)
    /\ metrics.operating_result = Some(-2000000000)
    /\ metrics.solvency_ratio = Some(3)
    /\ health.financial_stability_score = 0

\* C12: with liquid_assets = 1,000,000 and num_apartments = 50, exactly
\* 20,000 per apartment, and cash_flow null, the liquid-assets rule adds 5
\* and the liquidity sub-score is 55.
C12_LiquidityBoundaryAddsFive ==
    (health.computed
        /\ metrics.liquid_assets = Some(1000000)
        /\ metrics.num_apartments = Some(50)
        /\ metrics.cash_flow = Null)
    => health.liquidity_score = 55

----------------------------------------------------------------------------
(* Claims about the red-flag detector (DetectSpec)                         *)

\* the flags the checks emit for the metrics and collaborator of the state
EmittedFlags ==
    AllChecks(metrics, _check_operational_issues(metrics).flags, query_interface)

EmittedBy(check) == SelectSeq(EmittedFlags, LAMBDA rf : rf.check = check)

Present(m, field) == HasAttr(m, field) /\ m[field] # Null

\* x / n for a present x and a present, non-zero n, compared with a bound
PerApartmentLT(m, field, bound) ==
    /\ Present(m, field) /\ Present(m, "num_apartments")
    /\ Get(m.num_apartments) # 0
    /\ RatioLT(Get(m[field]), Get(m.num_apartments), bound, 1)

InterestPerApartmentGT(m, bound) ==
    /\ Present(m, "interest_costs") /\ Present(m, "num_apartments")
    /\ Get(m.num_apartments) # 0
    /\ RatioGT(Abs(Get(m.interest_costs)), Get(m.num_apartments), bound, 1)

DebtToEquityGT(m, bound) ==
    /\ Present(m, "total_debt") /\ Present(m, "equity")
    /\ Get(m.equity) # 0
    /\ RatioGT(Get(m.total_debt), Get(m.equity), bound, 1)

BuildingAgeGT(m, bound) ==
    Present(m, "building_year") /\ 2024 - Get(m.building_year) > bound

\* The tiers of every threshold check, most severe first, each with its
\* severity and whether the metrics meet its threshold.
Tiers(m) ==
    [operating_result |->
        <<<<"critical", Present(m, "operating_result") /\ Get(m.operating_result) < -500000>>,
          <<"high", Present(m, "operating_result") /\ Get(m.operating_result) < -100000>>>>,
     annual_result |->
        <<<<"high", Present(m, "annual_result") /\ Get(m.annual_result) < -1000000>>>>,
     solvency_ratio |->
        <<<<"critical", Present(m, "solvency_ratio") /\ Get(m.solvency_ratio) < 5>>,
          <<"high", Present(m, "solvency_ratio") /\ Get(m.solvency_ratio) < 10>>,
          <<"medium", Present(m, "solvency_ratio") /\ Get(m.solvency_ratio) < 15>>>>,
     interest_per_apt |->
        <<<<"critical", InterestPerApartmentGT(m, 40000)>>,
          <<"high", InterestPerApartmentGT(m, 25000)>>,
          <<"medium", InterestPerApartmentGT(m, 15000)>>>>,
     debt_to_equity |->
        <<<<"critical", DebtToEquityGT(m, 3)>>,
          <<"high", DebtToEquityGT(m, 2)>>>>,
     cash_flow |->
        <<<<"critical", Present(m, "cash_flow") /\ Get(m.cash_flow) < -500000>>,
          <<"high", Present(m, "cash_flow") /\ Get(m.cash_flow) < -200000>>>>,
     assets_per_apt |->
        <<<<"high", PerApartmentLT(m, "liquid_assets", 10000)>>,
          <<"medium", PerApartmentLT(m, "liquid_assets", 20000)>>>>,
     building_age |->
        <<<<"high", BuildingAgeGT(m, 80)>>,
          <<"medium", BuildingAgeGT(m, 60)>>>>,
     reserves_old_building |->
        <<<<"high", BuildingAgeGT(m, 60) /\ PerApartmentLT(m, "maintenance_reserves", 50000)>>>>,
     reserves_per_apt |->
        <<<<"medium", PerApartmentLT(m, "maintenance_reserves", 20000)>>>>,
     monthly_equivalent |->
        <<<<"medium", Present(m, "annual_fee_per_sqm")
                        /\ Get(m["annual_fee_per_sqm"]) > 70 * 12>>,
          <<"low", Present(m, "annual_fee_per_sqm")
                     /\ Get(m["annual_fee_per_sqm"]) > 60 * 12>>>>]

ThresholdChecks == DOMAIN Tiers(NullMetrics)

TiersMet(m, check) == {i \in 1..Len(Tiers(m)[check]) : Tiers(m)[check][i][2]}

Returned == report.called /\ report.raised = None

\* critical before high before medium before low
SeverityRank(s) ==
    CASE s = "critical" -> 1 [] s = "high" -> 2 [] s = "medium" -> 3 [] s = "low" -> 4

OfSeverity(flags, s) == SelectSeq(flags, LAMBDA rf : rf.severity = s)

\* C14: in every report returned no flag is preceded by a flag of lower
\* severity, and flags of equal severity keep the order in which the checks
\* produced them.
C14_FlagsSortedBySeverityStable ==
    Returned
    => /\ \A i, j \in 1..Len(report.red_flags) :
            i < j => SeverityRank(report.red_flags[i].severity)
                        <= SeverityRank(report.red_flags[j].severity)
       /\ \A s \in Severities :
            OfSeverity(report.red_flags, s) = OfSeverity(EmittedFlags, s)

\* a report whose flags the sort had to move: the checks produced a medium
\* flag before a critical one, and two high flags from different checks
C14_Witness ==
    /\ Returned
    /\ report.red_flags # EmittedFlags
    /\ report.critical_count >= 1
    /\ report.medium_count >= 1
    /\ \E i, j \in 1..Len(report.red_flags) :
          /\ i < j
          /\ report.red_flags[i].severity = "high"
          /\ report.red_flags[j].severity = "high"
          /\ report.red_flags[i].category # report.red_flags[j].category

\* the level the rule gives the counts of a report, under given names for
\* the five levels, highest first
RiskLevelOf(r, names) ==
    IF r.critical_count >= 2 THEN names[1]
    ELSE IF r.critical_count >= 1 \/ r.high_count >= 3 THEN names[2]
    ELSE IF r.high_count >= 1 \/ r.medium_count >= 3 THEN names[3]
    ELSE IF r.medium_count >= 1 THEN names[4]
    ELSE names[5]

C16_NullMetricsGiveEmptyReport ==
    (report.called /\ metrics = NullMetrics /\ ~query_interface.present)
    => /\ report.raised = None
       /\ report.red_flags = <<>>
       /\ report.total_red_flags = 0
       /\ report.critical_count = 0
       /\ report.high_count = 0
       /\ report.medium_count = 0
       /\ report.low_count = 0
       /\ report.overall_risk_level = "MINIMAL"
       /\ report.summary = NoIssuesSummary

----------------------------------------------------------------------------
(* Claims about the debt/equity rule (ScoreSpec)                           *)

\* total_debt and equity both present and equity > 0
DebtEquityApplicable(m) ==
    IsNotNone(m.total_debt) /\ IsNotNone(m.equity) /\ Get(m.equity) > 0

\* C22: the debt/equity rule of the debt-management score is applied exactly
\* when total_debt and equity are both present and equity > 0 (with no
\* interest costs the score then leaves its base of 50), and a total_debt of
\* 0 with equity > 0 counts as ratio 0: +15.
C22_DebtEquityRuleApplies ==
    (health.computed /\ metrics.interest_costs = Null)
    => /\ DebtEquityApplicable(metrics) <=> health.debt_management_score # 50
       /\ (DebtEquityApplicable(metrics) /\ Get(metrics.total_debt) = 0)
             => health.debt_management_score = 65

----------------------------------------------------------------------------
(* Claims about the fee check, the actions and the collaborator (DetectSpec) *)

FeeFlags == SelectSeq(report.red_flags, LAMBDA rf : rf.check = "monthly_equivalent")

\* C23: in a report returned, annual_fee_per_sqm / 12 > 70 gives one fee flag
\* of severity high, a value > 60 and <= 70 one of severity low, and a value
\* <= 60 or a null fee none.
C23_FeeFlagSeverities ==
    Returned
    => LET fee == metrics["annual_fee_per_sqm"]
       IN IF IsNotNone(fee) /\ RatioGT(Get(fee), 12, 70, 1)
          THEN FeeFlags = <<RedFlag("monthly_equivalent", "operational", "high")>>
          ELSE IF IsNotNone(fee) /\ RatioGT(Get(fee), 12, 60, 1)
          THEN FeeFlags = <<RedFlag("monthly_equivalent", "operational", "low")>>
          ELSE FeeFlags = <<>>

\* a flag that some action other than the default answers: any critical
\* flag, a high flag of the four metric categories, any governance or legal flag
Actionable(rf) ==
    \/ rf.severity = "critical"
    \/ /\ rf.severity = "high"
       /\ rf.category \in {"financial_stability", "debt_risk", "liquidity", "maintenance"}
    \/ rf.category \in {"governance", "legal"}

HasDefaultAction == "normal_due_diligence" \in Range(report.immediate_actions)

\* C24 as stated: the immediate actions of a report are never empty and hold
\* the default action if and only if the report holds no flag.
C24_DefaultActionIffNoFlags ==
    Returned
    => /\ report.immediate_actions # <<>>
       /\ HasDefaultAction <=> report.red_flags = <<>>

\* C24, amended: the immediate actions of a report are never empty and hold
\* the default action if and only if no flag of the report calls for another
\* action; a report without flags holds the default action only.
C24_DefaultActionIffNoOtherAction ==
    Returned
    => /\ report.immediate_actions # <<>>
       /\ HasDefaultAction <=> (\A rf \in Range(report.red_flags) : ~Actionable(rf))
       /\ report.red_flags = <<>> => report.immediate_actions = <<"normal_due_diligence">>

\* a report with one medium flag and nothing else: the default action
C24_Witness ==
    /\ Returned
    /\ report.total_red_flags = 1
    /\ report.medium_count = 1
    /\ report.immediate_actions = <<"normal_due_diligence">>

\* the flags of the metric checks alone, and of the free-text checks whose
\* answer came back flagged
MetricFlags ==
    Range(AllChecks(metrics, _check_operational_issues(metrics).flags, NoCollaborator))

AnsweredFlags ==
    (IF query_interface.auditor = "flagged"
     THEN {RedFlag("auditor_remarks", "governance", "high")} ELSE {})
    \cup (IF query_interface.disputes = "flagged"
          THEN {RedFlag("legal_disputes", "legal", "high")} ELSE {})
    \cup (IF query_interface.assessments = "flagged"
          THEN {RedFlag("special_assessments", "governance", "medium")} ELSE {})

CollaboratorFailed ==
    /\ query_interface.present
    /\ "error" \in {query_interface.auditor, query_interface.disputes,
                    query_interface.assessments}

\* C25: when a call of the query collaborator raises, detect_red_flags still
\* returns a report, and the report holds every metric flag and the flag of
\* every free-text check that did not fail: only the failing check's flag is
\* missing.
C25_CollaboratorErrorsOmitOnlyTheirFlag ==
    (report.called /\ CollaboratorFailed)
    => /\ report.raised = None
       /\ Range(report.red_flags) = MetricFlags \cup AnsweredFlags

----------------------------------------------------------------------------
(* Claims about cache failures and the frame of a search (Spec)            *)

\* the retriever r holds the index of the collection `handle` of db
BuiltFromStore(r, handle, db) ==
    LET all_docs == collection_get(db[handle])
    IN /\ r.bm25_index.built
       /\ r.document_ids = all_docs.ids
       /\ r.document_texts = all_docs.documents
       /\ r.document_metadatas = all_docs.metadatas
       /\ r.bm25_index = BM25Okapi([i \in 1..Len(all_docs.documents) |->
                                      Tokenize(all_docs.documents[i])])

\* the file carries what the retriever r holds
FileHolds(file, r) ==
    /\ file.state = "ok"
    /\ <<file.bm25_index, file.document_texts, file.document_ids, file.document_metadatas>>
          = Snapshot(r)

\* C26: a cache file that cannot be loaded leaves the retriever constructed
\* with its index absent, and the next hybrid search completes with the index
\* rebuilt from the store; a cache file that cannot be saved leaves
\* add_documents complete with the index just built from the store in memory.
C26_CacheFailuresNotFatal ==
    [][/\ (op'.name = "create_collection" /\ enable_hybrid /\ cache.state = "corrupt")
            => /\ outcome' = "ok"
               /\ hybrid_retriever'.created
               /\ ~hybrid_retriever'.bm25_index.built
       /\ (op'.name = "search" /\ op'.hybrid /\ cache.state = "corrupt"
             /\ ~hybrid_retriever.bm25_index.built)
            => /\ outcome' = "ok"
               /\ BuiltFromStore(hybrid_retriever', collection', client')
       /\ (op'.name = "add_documents" /\ collection # None /\ enable_hybrid
             /\ hybrid_retriever.created /\ ~FileHolds(cache', hybrid_retriever'))
            => /\ outcome' = "ok"
               /\ BuiltFromStore(hybrid_retriever', collection', client')]_vars

\* C27 as stated: a hybrid search changes neither the sparse index nor the
\* cache file nor the store, in whatever state it is called.
C27_HybridSearchReadOnly ==
    [][(op'.name = "search" /\ op'.hybrid)
        => /\ hybrid_retriever' = hybrid_retriever
           /\ cache' = cache
           /\ client' = client /\ collection' = collection]_vars

\* C27, amended: a hybrid search never changes the store, and called with
\* the sparse index present it changes neither the index nor the cache file.
C27_HybridSearchReadOnlyWithIndex ==
    [][(op'.name = "search" /\ op'.hybrid)
        => /\ client' = client /\ collection' = collection
           /\ hybrid_retriever.bm25_index.built
                => (hybrid_retriever' = hybrid_retriever /\ cache' = cache)]_vars

\* a hybrid search answered from an index that is not the store's: the
\* search found it present and left it as it was
C27_Witness ==
    /\ op.name = "search" /\ op.hybrid /\ outcome = "ok"
    /\ res.ids # <<>>
    /\ hybrid_retriever.bm25_index.built
    /\ ~BuiltFromStore(hybrid_retriever, collection, client)

\* how often a flag occurs in a list
Occurrences(flags, rf) == Cardinality({i \in 1..Len(flags) : flags[i] = rf})

\* C28: in every report returned total_red_flags is the sum of the four
\* severity counts and the length of red_flags, and red_flags holds each
\* flag the checks produced exactly as often as they produced it.
C28_CountsAndFlagsAgree ==
    Returned
    => /\ report.total_red_flags
            = report.critical_count + report.high_count
              + report.medium_count + report.low_count
       /\ report.total_red_flags = Len(report.red_flags)
       /\ Len(report.red_flags) = Len(EmittedFlags)
       /\ \A rf \in Range(report.red_flags) \cup Range(EmittedFlags) :
             Occurrences(report.red_flags, rf) = Occurrences(EmittedFlags, rf)

\* a report of at least three flags, two of them of one severity, that the
\* sort reordered
C28_Witness ==
    /\ Returned
    /\ report.total_red_flags >= 3
    /\ report.high_count >= 2
    /\ report.medium_count >= 1
    /\ report.red_flags # EmittedFlags

\* MINIMAL < LOW < MODERATE < HIGH < CRITICAL, each level under the name the
\* order gives it and under the name the detector returns
LevelRank(level) ==
    CASE level \in {"MINIMAL"} -> 1
      [] level \in {"LOW", "LÅG"} -> 2
      [] level \in {"MODERATE", "MÅTTLIG"} -> 3
      [] level \in {"HIGH", "HÖG"} -> 4
      [] level \in {"CRITICAL", "KRITISK"} -> 5

\* the severity counts of the report of the state
CountsOf(r) ==
    [critical |-> r.critical_count, high |-> r.high_count,
     medium |-> r.medium_count, low |-> r.low_count]

\* the counts reached from c by raising one of critical, high and medium
RaisedCounts(c) ==
    UNION {{[c EXCEPT ![k] = n] : n \in (c[k] + 1)..(MaxCount + 1)} :
             k \in {"critical", "high", "medium"}}

\* C29: raising the number of critical, high or medium flags while the
\* other counts stay fixed never lowers the level _calculate_overall_risk
\* returns, for the order MINIMAL < LOW < MODERATE < HIGH < CRITICAL.
C29_RiskLevelMonotone ==
    report.called
    => \A d \in RaisedCounts(CountsOf(report)) :
          LevelRank(_calculate_overall_risk(d)) >= LevelRank(report.overall_risk_level)

\* two high flags give the third level, and a third high flag raises it
C29_Witness ==
    /\ report.called
    /\ report.critical_count = 0
    /\ report.high_count = 2
    /\ LevelRank(report.overall_risk_level) = 3
    /\ LevelRank(_calculate_overall_risk([CountsOf(report) EXCEPT !.high = 3])) = 4

----------------------------------------------------------------------------
(* Claims about the analysis cache (CacheSpec)                             *)

\* the content of a metrics row that the hash is taken over, or none
HashedContent(row) ==
    IF row = Null THEN Null
    ELSE Some([c \in DOMAIN row[1] \cap Range(HashedFields) |-> row[1][c]])

\* C30: get_analysis_cache returns a cached analysis or nothing; it returns
\* the cached analysis only if the content hash of the metrics now stored
\* equals the one of the metrics stored when the analysis was saved, and
\* only if the inputs stored then are the inputs stored now; when the
\* hashes differ it deletes the cached row and returns nothing.
C30_CachedAnalysisOnlyForUnchangedInputs ==
    [][database'.call = "get_analysis_cache"
        => LET row == SelectCache(database, database'.analysis_version)
               same == /\ row # Null
                       /\ HashedContent(row[1].computed_from.metrics)
                             = HashedContent(database.brf_financial_metrics)
           IN /\ database'.raised = None
              /\ database'.returned # Null
                    => (same /\ row[1].computed_from = StoredInputs(database))
              /\ (row # Null /\ ~same)
                    => (database'.returned = Null
                        /\ database'.brf_analysis_cache = Null)]_vars

====
